---------------------------- MODULE Spec2Model ----------------------------
(***************************************************************************)
(* A model of the OpenPortal agent runtime (templemeads / paddington):     *)
(* jobs and their versions, the per-peer boards with their waiters, and    *)
(* the dispatch of an add_user instruction Portal -> Instance -> Account.  *)
(*                                                                         *)
(* Three specifications share the variables:                               *)
(*   SpecJob    one Job value driven through its methods (job.rs);         *)
(*   SpecBoard  one Board driven through its interface with any job;       *)
(*   Spec       the three agents, their boards, connections and handlers.  *)
(***************************************************************************)
EXTENDS Integers, Sequences, FiniteSets, TLC

(***************************************************************************)
(* Bounds of the model.                                                    *)
(***************************************************************************)
\* the clock of SpecJob runs 0..MaxClock
MaxClock == 2
\* job ids a board of SpecBoard is driven with
MaxBoardIds == 2
\* highest version a job of SpecJob or SpecBoard is driven to
MaxVersion == 3
\* waiters taken in SpecBoard
MaxWaiters == 2
\* jobs the portal submits in Spec
MaxJobs == 1
\* times a connection is closed in Spec
MaxDisconnects == 1
\* jobs the portal submits in SpecLink
MaxQueued == 2
\* run_once calls of the client supervisor
MaxAttempts == 3
\* Error control messages raised
MaxErrors == 1
\* pairs of keys generated by add_client
MaxKeyPairs == 2
\* parts of an identifier text, words after the first word of an
\* instruction text, characters of a home directory
MaxParts == 4
MaxArgs == 3
MaxHomedir == 3
\* whitespace-delimited tokens of a command
MaxTokens == 4
\* characters of a value that is encrypted, keys generated
MaxPlain == 2
MaxKeys == 2
\* tasks calling set_report, turns of its while loop a task is followed
\* through, distinct usage values of a report
MaxTasks == 2
MaxIters == 2
MaxValue == 2
\* clients and servers of the configuration the event loop is run with
MaxPeers == 3
\* Instance handlers that run at a time
MaxHandlers == 2
\* seconds the supervisor sleeps between two run_once calls
Backoff == 5

(***************************************************************************)
(* Values.                                                                 *)
(***************************************************************************)
\* job.rs:17-21 (Pending, Complete, Error); Running is the interim state
\* the Instance handler sets (slurm main.rs:136)
Status == {"Pending", "Running", "Complete", "Error"}
Terminal == {"Complete", "Error"}

\* Option<String>: <<>> is None, <<s>> is Some(s)
None == <<>>
Some(s) == <<s>>
IsSome(o) == Len(o) = 1

\* serde_json::to_string of a string: the text wrapped as a JSON string.
\* A stored result remembers whether it is JSON or a raw message.
ToJson(s) == [fmt |-> "json", text |-> s]
Raw(s) == [fmt |-> "raw", text |-> s]
\* serde_json::from_str::<String>: only a JSON string decodes
FromJson(r) ==
    IF r.fmt = "json" THEN [ok |-> TRUE, val |-> r.text]
    ELSE [ok |-> FALSE, val |-> ""]

Instructions == {"add_user", "remove_user"}

\* the absent job of a board slot or of a handler's local
NoJob == [id |-> 0]

(***************************************************************************)
(* Job (templemeads/src/job.rs).  A method that returns Result is an       *)
(* operator that returns [ok, err, job]: job is the value self holds       *)
(* after the call.                                                         *)
(***************************************************************************)
JobNew(id, dest, instr, t) ==
    [id |-> id, created |-> t, updated |-> t, version |-> 1,
     dest |-> dest, instr |-> instr, state |-> "Pending", result |-> None]

IsFinished(job) == job.state \in Terminal

CompletedNoResult(job, result, t) ==
    IF job.state # "Pending"
    THEN [ok |-> FALSE, err |-> "InvalidState", job |-> job]
    ELSE [ok |-> TRUE, err |-> "",
          job |-> [job EXCEPT !.state = "Complete", !.updated = t,
                              !.version = @ + 1]]

CompletedAnyState(job, result, t) ==
    [ok |-> TRUE, err |-> "",
     job |-> [job EXCEPT !.state = "Complete",
                         !.result = Some(ToJson(result)),
                         !.updated = t, !.version = @ + 1]]

Completed(job, result, t) ==
    IF job.state # "Pending"
    THEN [ok |-> FALSE, err |-> "InvalidState", job |-> job]
    ELSE [ok |-> TRUE, err |-> "",
          job |-> [job EXCEPT !.state = "Complete",
                              !.result = Some(ToJson(result)),
                              !.updated = t, !.version = @ + 1]]

ErroredKeepsVersion(job, message, t) ==
    IF job.state # "Pending"
    THEN [ok |-> FALSE, err |-> "InvalidState", job |-> job]
    ELSE [ok |-> TRUE, err |-> "",
          job |-> [job EXCEPT !.state = "Error",
                              !.result = Some(Raw(message)),
                              !.updated = t]]

Errored(job, message, t) ==
    IF job.state # "Pending"
    THEN [ok |-> FALSE, err |-> "InvalidState", job |-> job]
    ELSE [ok |-> TRUE, err |-> "",
          job |-> [job EXCEPT !.state = "Error",
                              !.result = Some(Raw(message)),
                              !.updated = t, !.version = @ + 1]]

\* Job::result::<String>: [ok, err, val] with val an Option
JobResult(job) ==
    CASE job.state = "Error" ->
           IF IsSome(job.result)
           THEN [ok |-> FALSE, err |-> "RunError", val |-> Some(job.result[1].text)]
           ELSE [ok |-> FALSE, err |-> "InvalidState", val |-> None]
      [] job.state = "Complete" ->
           IF IsSome(job.result)
           THEN IF FromJson(job.result[1]).ok
                THEN [ok |-> TRUE, err |-> "", val |-> Some(FromJson(job.result[1]).val)]
                ELSE [ok |-> FALSE, err |-> "SerdeJson", val |-> None]
           ELSE [ok |-> FALSE, err |-> "Unknown", val |-> None]
      [] OTHER -> [ok |-> TRUE, err |-> "", val |-> None]

\* Job::execute: a completed copy; self is not changed
Execute(job, t) == Completed(job, "Hello, World! - we have run!", t)

\* Job::running(progress): the interim state; rejected once terminal
Running(job, t) ==
    IF job.state \in Terminal
    THEN [ok |-> FALSE, err |-> "InvalidState", job |-> job]
    ELSE [ok |-> TRUE, err |-> "",
          job |-> [job EXCEPT !.state = "Running", !.updated = t,
                              !.version = @ + 1]]


(***************************************************************************)
(* Board (templemeads board): jobs by id, the waiters of each id, and the  *)
(* list queued for a peer that was not connected.  An operation returns    *)
(* the board after it, beside its result.                                  *)
(***************************************************************************)
EmptyBoard == [jobs |-> << >>, waiters |-> << >>, queued |-> << >>]

HasJob(b, id) == id \in DOMAIN b.jobs

WaitersOf(b, id) == IF id \in DOMAIN b.waiters THEN b.waiters[id] ELSE {}

\* the board with job stored and, when job is terminal, its waiters taken off
Store(b, job) ==
    [b EXCEPT !.jobs = (job.id :> job) @@ @,
              !.waiters = IF IsFinished(job)
                          THEN [i \in (DOMAIN @) \ {job.id} |-> @[i]]
                          ELSE @]

Fired(b, job) == IF IsFinished(job) THEN WaitersOf(b, job.id) ELSE {}

BoardAddNoVersionCheck(b, job) ==
    [ok |-> TRUE, err |-> "", board |-> Store(b, job), notify |-> Fired(b, job)]

BoardAddReplacesTerminal(b, job) ==
    CASE ~HasJob(b, job.id) ->
           [ok |-> TRUE, err |-> "", board |-> Store(b, job), notify |-> Fired(b, job)]
      [] HasJob(b, job.id) /\ job.version = b.jobs[job.id].version ->
           [ok |-> TRUE, err |-> "", board |-> b, notify |-> {}]
      [] HasJob(b, job.id) /\ job.version < b.jobs[job.id].version ->
           [ok |-> FALSE, err |-> "OutOfOrder", board |-> b, notify |-> {}]
      [] OTHER ->
           [ok |-> TRUE, err |-> "", board |-> Store(b, job), notify |-> Fired(b, job)]

BoardAddNotifiesAnyState(b, job) ==
    CASE ~HasJob(b, job.id) \/ (HasJob(b, job.id) /\ job.version > b.jobs[job.id].version
                                 /\ ~IsFinished(b.jobs[job.id])) ->
           [ok |-> TRUE, err |-> "",
            board |-> [b EXCEPT !.jobs = (job.id :> job) @@ @,
                                !.waiters = [i \in (DOMAIN @) \ {job.id} |-> @[i]]],
            notify |-> WaitersOf(b, job.id)]
      [] HasJob(b, job.id) /\ job.version = b.jobs[job.id].version ->
           [ok |-> TRUE, err |-> "", board |-> b, notify |-> {}]
      [] HasJob(b, job.id) /\ job.version < b.jobs[job.id].version ->
           [ok |-> FALSE, err |-> "OutOfOrder", board |-> b, notify |-> {}]
      [] OTHER ->
           [ok |-> FALSE, err |-> "InvalidState", board |-> b, notify |-> {}]

BoardAddForgetsWaiters(b, job) ==
    CASE ~HasJob(b, job.id) \/ (HasJob(b, job.id) /\ job.version > b.jobs[job.id].version
                                 /\ ~IsFinished(b.jobs[job.id])) ->
           [ok |-> TRUE, err |-> "",
            board |-> [b EXCEPT !.jobs = (job.id :> job) @@ @],
            notify |-> {}]
      [] HasJob(b, job.id) /\ job.version = b.jobs[job.id].version ->
           [ok |-> TRUE, err |-> "", board |-> b, notify |-> {}]
      [] HasJob(b, job.id) /\ job.version < b.jobs[job.id].version ->
           [ok |-> FALSE, err |-> "OutOfOrder", board |-> b, notify |-> {}]
      [] OTHER ->
           [ok |-> FALSE, err |-> "InvalidState", board |-> b, notify |-> {}]

\* Board::add: insert, or replace by a strictly newer version; an equal
\* version is a no-op, an older one is OutOfOrder, and a job that is
\* already terminal on the board accepts no further change
BoardAdd(b, job) ==
    CASE ~HasJob(b, job.id) ->
           [ok |-> TRUE, err |-> "", board |-> Store(b, job), notify |-> Fired(b, job)]
      [] HasJob(b, job.id) /\ job.version = b.jobs[job.id].version ->
           [ok |-> TRUE, err |-> "", board |-> b, notify |-> {}]
      [] HasJob(b, job.id) /\ job.version < b.jobs[job.id].version ->
           [ok |-> FALSE, err |-> "OutOfOrder", board |-> b, notify |-> {}]
      [] HasJob(b, job.id) /\ job.version > b.jobs[job.id].version
            /\ IsFinished(b.jobs[job.id]) ->
           [ok |-> FALSE, err |-> "InvalidState", board |-> b, notify |-> {}]
      [] OTHER ->
           [ok |-> TRUE, err |-> "", board |-> Store(b, job), notify |-> Fired(b, job)]

\* Board::get
BoardGet(b, id) ==
    IF HasJob(b, id) THEN [ok |-> TRUE, err |-> "", job |-> b.jobs[id]]
    ELSE [ok |-> FALSE, err |-> "NotFound", job |-> NoJob]

\* Board::remove: idempotent
BoardRemove(b, id) ==
    [b EXCEPT !.jobs = [i \in (DOMAIN @) \ {id} |-> @[i]]]

BoardWaitForAlwaysPending(b, id, w) ==
    [board |-> [b EXCEPT !.waiters = (id :> (WaitersOf(b, id) \cup {w})) @@ @],
     resolved |-> FALSE, job |-> NoJob]

\* Board::wait_for: a waiter of id; resolved at once when the job on the
\* board is already terminal, registered otherwise (also for an unknown id)
BoardWaitFor(b, id, w) ==
    IF HasJob(b, id) /\ IsFinished(b.jobs[id])
    THEN [board |-> b, resolved |-> TRUE, job |-> b.jobs[id]]
    ELSE [board |-> [b EXCEPT !.waiters = (id :> (WaitersOf(b, id) \cup {w})) @@ @],
          resolved |-> FALSE, job |-> NoJob]

\* Board::queue_for_send and Board::drain_queued
BoardQueueForSend(b, m) == [b EXCEPT !.queued = Append(@, m)]
BoardDrainQueued(b) == [board |-> [b EXCEPT !.queued = << >>], msgs |-> b.queued]


(***************************************************************************)
(* State.                                                                  *)
(***************************************************************************)
VARIABLES
    \* SpecJob: the clock, the job, the copy execute() returned, the last
    \* call's result and the count of successful completed()/errored() calls
    now, jv, jcopy, jret, jsucc,
    \* SpecBoard: the board, each waiter's state and the last call's result
    tb, wres, bret,
    \* Spec: the connections that are up, the messages in flight from an
    \* agent to a peer, each agent's board for each peer, the progress of
    \* the Connected control message, each agent's agent-type registry,
    up, chan, board, cpc, registry,
    \* the Instance handler of each job (its place, its locals job and
    \* add_job, what its waiter resolved with), the Account handler of
    \* each job, and the counts of submitted jobs and closed connections
    hpc, hjob, hadd, hres, apc, ajob, submitted, ndisc,
    \* history: the jobs whose handler was running when the connection to
    \* the agent that put them was closed
    cut,
    \* SpecClient: the place of the client supervisor, the result of its
    \* last run_once, the counts of run_once calls and of sleeps, the
    \* seconds slept since the last run_once ended, the client's and the
    \* server's configuration
    spc, sres, natt, nsleep, slept, ccfg, scfg,
    \* SpecCtl: the control messages each agent has still to process for
    \* each peer, what process_control_message returned last, and the count
    \* of Error messages raised
    ctl, cret, nerr,
    \* SpecStart: the place of custom::run, what it returned, the name of
    \* the service it was called with, and what it has installed or
    \* started so far, in order
    rpc, rret, rname, installed,
    \* SpecInvite: each service's configuration, the invitations issued,
    \* the count of keys generated and the result of the last call
    svc, invites, nkey, confret,
    \* the specifications of the parsers and of the keys: the value a
    \* function is called on and the values returned so far
    call, result,
    \* SpecCache: the cache of the slurm agent, the task that holds its
    \* write lock (0: none) and the place of every task calling set_report
    cache, lockh, ctask,
    \* SpecLoop: the place of eventloop::run, what process_args gave it, the
    \* tasks it has spawned, how many of their handles it has awaited and
    \* what it returned
    epc, eargs, etasks, ejoined, eret,
    \* SpecLock: the task that holds the write lock of the Account's board
    \* (0: none), the place of each Instance handler, the handlers whose
    \* job the board holds a terminal version of, and the task that
    \* applies the replies of the Account
    blk, lpc, lterm, lrcv

jobVars == <<now, jv, jcopy, jret, jsucc>>
boardVars == <<tb, wres, bret>>
netVars == <<up, chan, board, cpc, registry>>
handlerVars == <<hpc, hjob, hadd, hres, apc, ajob>>
cliVars == <<spc, sres, natt, nsleep, slept, ccfg, scfg>>
ctlVars == <<ctl, cret, nerr>>
runVars == <<rpc, rret, rname, installed>>
confVars == <<svc, invites, nkey, confret>>
callVars == <<call, result>>
cacheVars == <<cache, lockh, ctask>>
loopVars == <<epc, eargs, etasks, ejoined, eret>>
lockVars == <<blk, lpc, lterm, lrcv>>
extVars == <<cacheVars, loopVars, lockVars>>
auxVars == <<ctlVars, runVars, confVars, callVars, extVars>>
sysVars == <<netVars, handlerVars, submitted, ndisc, cut, cliVars, auxVars>>
vars == <<jobVars, boardVars, sysVars>>

(***************************************************************************)
(* SpecJob: one job, created by Job::new, driven through its methods.      *)
(***************************************************************************)
Messages == {"a", "b"}

NoRet == [op |-> "", ok |-> TRUE, err |-> ""]

JobIdle ==
    /\ now = 0
    /\ jv = NoJob
    /\ jcopy = NoJob
    /\ jret = NoRet
    /\ jsucc = 0

JobInit ==
    /\ now = 0
    /\ \E instr \in Instructions : jv = JobNew(1, <<"I">>, instr, 0)
    /\ jcopy = NoJob
    /\ jret = [op |-> "new", ok |-> TRUE, err |-> ""]
    /\ jsucc = 0

\* the clock advances (Utc::now is read by new, completed and errored)
JobTick ==
    /\ now < MaxClock
    /\ now' = now + 1
    /\ UNCHANGED <<jv, jcopy, jret, jsucc>>
    /\ UNCHANGED <<boardVars, sysVars>>

JobCompleted(r) ==
    /\ LET res == Completed(jv, r, now) IN
        /\ res.job.version <= MaxVersion
        /\ jv' = res.job
        /\ jret' = [op |-> "completed", ok |-> res.ok, err |-> res.err]
        /\ jsucc' = IF res.ok THEN jsucc + 1 ELSE jsucc
    /\ UNCHANGED <<now, jcopy>>
    /\ UNCHANGED <<boardVars, sysVars>>

JobErrored(m) ==
    /\ LET res == Errored(jv, m, now) IN
        /\ res.job.version <= MaxVersion
        /\ jv' = res.job
        /\ jret' = [op |-> "errored", ok |-> res.ok, err |-> res.err]
        /\ jsucc' = IF res.ok THEN jsucc + 1 ELSE jsucc
    /\ UNCHANGED <<now, jcopy>>
    /\ UNCHANGED <<boardVars, sysVars>>

JobExecute ==
    /\ LET res == Execute(jv, now) IN
        /\ res.job.version <= MaxVersion
        /\ jcopy' = IF res.ok THEN res.job ELSE jcopy
        /\ jret' = [op |-> "execute", ok |-> res.ok, err |-> res.err]
    /\ UNCHANGED <<now, jv, jsucc>>
    /\ UNCHANGED <<boardVars, sysVars>>

JobRunning ==
    /\ LET res == Running(jv, now) IN
        /\ res.job.version <= MaxVersion
        /\ jv' = res.job
        /\ jret' = [op |-> "running", ok |-> res.ok, err |-> res.err]
    /\ UNCHANGED <<now, jcopy, jsucc>>
    /\ UNCHANGED <<boardVars, sysVars>>

JobNext ==
    \/ JobTick
    \/ \E r \in Messages : JobCompleted(r)
    \/ \E m \in Messages : JobErrored(m)
    \/ JobExecute
    \/ JobRunning


(***************************************************************************)
(* SpecBoard: one board driven through add and wait_for with any job.      *)
(***************************************************************************)
BoardIds == 1 .. MaxBoardIds
WaiterIds == 1 .. MaxWaiters

ResultOf(state) ==
    CASE state = "Complete" -> Some(ToJson("a"))
      [] state = "Error" -> Some(Raw("a"))
      [] OTHER -> None

\* the jobs a board is driven with: every id, version and state
BoardJobs ==
    { [id |-> i, created |-> 0, updated |-> 0, version |-> v,
       dest |-> <<"I">>, instr |-> "add_user", state |-> st,
       result |-> ResultOf(st)] :
      i \in BoardIds, v \in 1 .. MaxVersion, st \in Status }

\* a waiter: free (not taken), pending on id, or resolved with job;
\* interim records that a non-terminal version of id was stored meanwhile
\* while it was pending, fresh that id was not on the board when it was taken,
\* how whether it resolved at once ("immediate") or by an add ("notified")
FreeWaiter ==
    [st |-> "free", id |-> 0, job |-> NoJob, interim |-> FALSE,
     fresh |-> FALSE, how |-> ""]

\* the waiters of notify resolve with job; a pending waiter of job.id
\* that is not notified has seen an interim version when job was stored
Notify(ws, notify, job, stored) ==
    [w \in DOMAIN ws |->
        IF w \in notify
        THEN [ws[w] EXCEPT !.st = "resolved", !.job = job, !.how = "notified"]
        ELSE IF stored /\ ws[w].st = "pending" /\ ws[w].id = job.id
             THEN [ws[w] EXCEPT !.interim = TRUE]
             ELSE ws[w]]

BoardIdle ==
    /\ tb = EmptyBoard
    /\ wres = [w \in WaiterIds |-> FreeWaiter]
    /\ bret = NoRet

TbAdd(job) ==
    LET res == BoardAdd(tb, job) IN
    /\ tb' = res.board
    /\ wres' = Notify(wres, res.notify, job, res.board # tb)
    /\ bret' = [op |-> "add", ok |-> res.ok, err |-> res.err]
    /\ UNCHANGED <<jobVars, sysVars>>

TbWaitFor(id, w) ==
    /\ wres[w].st = "free"
    /\ LET res == BoardWaitFor(tb, id, w) IN
        /\ tb' = res.board
        /\ wres' = [wres EXCEPT ![w] =
                      [st |-> IF res.resolved THEN "resolved" ELSE "pending",
                       id |-> id, job |-> res.job, interim |-> FALSE,
                       fresh |-> ~HasJob(tb, id),
                       how |-> IF res.resolved THEN "immediate" ELSE ""]]
    /\ bret' = [op |-> "wait_for", ok |-> TRUE, err |-> ""]
    /\ UNCHANGED <<jobVars, sysVars>>

BoardNext ==
    \/ \E job \in BoardJobs : TbAdd(job)
    \/ \E id \in BoardIds, w \in WaiterIds : TbWaitFor(id, w)

(***************************************************************************)
(* Spec: the Portal P, the Instance I (slurm) and the Account A (freeipa). *)
(* P is connected to I and I to A.  A pair <<a, p>> names agent a's board  *)
(* for peer p and the stream of messages from a to p.                      *)
(***************************************************************************)
Agents == {"P", "I", "A"}
Pairs == {<<"P", "I">>, <<"I", "P">>, <<"I", "A">>, <<"A", "I">>}
Links == {"PI", "IA"}
Link(a, p) == IF "P" \in {a, p} THEN "PI" ELSE "IA"
PairsOf(l) == {pr \in Pairs : Link(pr[1], pr[2]) = l}

\* ids of the jobs the portal submits, and of the add_job each Instance
\* handler creates (Uuid::new_v4: an id no other job has)
PortalIds == 1 .. MaxJobs
AddIds == (MaxJobs + 1) .. (2 * MaxJobs)
AddJobId(x) == MaxJobs + x

Last(seq) == seq[Len(seq)]

RegisterMsg == [type |-> "Register", job |-> NoJob, jobs |-> << >>]
PutMsg(job) == [type |-> "Put", job |-> job, jobs |-> << >>]
UpdateMsg(job) == [type |-> "Update", job |-> job, jobs |-> << >>]
SyncMsg(jobs) == [type |-> "Sync", job |-> NoJob, jobs |-> jobs]

(***************************************************************************)
(* paddington config: IpOrRange and ClientConfig.  The text of an address  *)
(* or range is the sequence of its tokens: an octet is its number, "*" is  *)
(* Star and "/" is Slash, so "10.0.0.0/24" is <<10, 0, 0, 0, Slash, 24>>.  *)
(* An IpAddr is the 32-bit number of its four octets.                      *)
(***************************************************************************)
Star == 0 - 1
Slash == 0 - 2

IsOctet(t) == t \in 0 .. 255

Ip4(a, b, c, d) == ((a * 256 + b) * 256 + c) * 256 + d

RECURSIVE Pow2(_)
Pow2(n) == IF n = 0 THEN 1 ELSE 2 * Pow2(n - 1)

\* str::parse::<IpAddr>: four octets
ParseIpAddr(text) ==
    IF Len(text) = 4 /\ \A i \in 1 .. 4 : IsOctet(text[i])
    THEN [ok |-> TRUE, ip |-> Ip4(text[1], text[2], text[3], text[4])]
    ELSE [ok |-> FALSE, ip |-> 0]

\* IpRange::new(text, ""): an address, "/" and a prefix length
IpRangeNew(text) ==
    IF /\ Len(text) = 6
       /\ \A i \in 1 .. 4 : IsOctet(text[i])
       /\ text[5] = Slash
       /\ text[6] \in 0 .. 32
    THEN [ok |-> TRUE, base |-> Ip4(text[1], text[2], text[3], text[4]), len |-> text[6]]
    ELSE [ok |-> FALSE, base |-> 0, len |-> 0]

\* IpRange::contains: addr has the range's first len bits
IpRangeContains(range, addr) ==
    (addr \div Pow2(32 - range.len)) = (range.base \div Pow2(32 - range.len))

IpOrRangeNew(text) ==
    IF ParseIpAddr(text).ok
    THEN [ok |-> TRUE, value |-> [kind |-> "IP", ip |-> ParseIpAddr(text).ip, range |-> << >>]]
    ELSE IF IpRangeNew(text).ok
         THEN [ok |-> TRUE, value |-> [kind |-> "Range", ip |-> 0, range |-> text]]
         ELSE [ok |-> FALSE, value |-> [kind |-> "Parse", ip |-> 0, range |-> << >>]]

IpOrRangeMatchesFirstOctet(self, addr) ==
    IF self.kind = "IP"
    THEN self.ip = addr
    ELSE IF IpRangeNew(self.range).ok
         THEN (addr \div Pow2(24)) = (IpRangeNew(self.range).base \div Pow2(24))
         ELSE FALSE

IpOrRangeMatches(self, addr) ==
    IF self.kind = "IP"
    THEN self.ip = addr
    ELSE IF IpRangeNew(self.range).ok
         THEN IpRangeContains(IpRangeNew(self.range), addr)
         ELSE FALSE

\* ClientConfig::new(name, ip) and ClientConfig::create_null(); the keys
\* are numbers, the two that Key::generate() returned being passed in
ClientConfigNew(name, ip, inner, outer) ==
    [name |-> Some(name), ip |-> Some(ip), inner_key |-> inner, outer_key |-> outer]

ClientConfigNull == [name |-> None, ip |-> None, inner_key |-> 0, outer_key |-> 0]

ClientConfigMatches(self, addr) ==
    IF IsSome(self.ip) THEN IpOrRangeMatches(self.ip[1], addr) ELSE FALSE

\* the texts a client is added with, the addresses a connection comes
\* from, the names and the keys
IpTexts ==
    { <<10, 0, 0, 1>>, <<10, 0, 0, 0, Slash, 24>>, <<127, 0, 0, 0, Slash, 24>>,
      <<127, Star, Star, Star>> }

SourceAddrs == {Ip4(10, 0, 0, 1), Ip4(10, 0, 1, 5), Ip4(127, 0, 0, 2)}

ServiceNames == {"", "I"}

PeerNames == {"", "P"}

OuterKeys == {1, 2}

\* the configurations of the server for its client "I": one for each text
\* IpOrRange::new accepts, and the null one
ServerConfigs ==
    {ClientConfigNew("I", IpOrRangeNew(t).value, 2, 1) : t \in {u \in IpTexts : IpOrRangeNew(u).ok}}
        \cup {ClientConfigNull}

\* what the client connects with: its service name, its peer's name, the
\* outer key of its invitation and the address it connects from
ClientConfigs ==
    [service : ServiceNames, peer : PeerNames, outer_key : OuterKeys, addr : SourceAddrs]

\* no client supervisor runs
ClientIdle ==
    /\ spc = "off"
    /\ sres = "none"
    /\ natt = 0
    /\ nsleep = 0
    /\ slept = 0
    /\ ccfg = [service |-> "I", peer |-> "P", outer_key |-> 1, addr |-> Ip4(10, 0, 0, 1)]
    /\ scfg = ClientConfigNew("I", IpOrRangeNew(<<10, 0, 0, 1>>).value, 2, 1)

\* no control message waits
CtlIdle ==
    /\ ctl = [pr \in Pairs |-> << >>]
    /\ cret = "none"
    /\ nerr = 0

\* custom::run is not modelled: the agent is up
RunIdle ==
    /\ rpc = "off"
    /\ rret = "none"
    /\ rname = "I"
    /\ installed = << >>

(***************************************************************************)
(* paddington config: ServiceConfig, ServerConfig and the invitation.      *)
(* A URL is the record of its scheme, host, port (0: none) and path.       *)
(***************************************************************************)
\* create_websocket_url: the scheme becomes ws or wss, host and port get
\* their defaults; a text that is no URL is a Parse error
CreateWebsocketUrl(url) ==
    IF url.scheme = ""
    THEN [ok |-> FALSE, url |-> url]
    ELSE [ok |-> TRUE,
          url |-> [scheme |-> CASE url.scheme = "ws" -> "ws"
                                [] url.scheme = "wss" -> "wss"
                                [] url.scheme = "http" -> "ws"
                                [] url.scheme = "https" -> "wss"
                                [] OTHER -> "wss",
                   host |-> IF url.host = "" THEN "localhost" ELSE url.host,
                   port |-> IF url.port = 0 THEN 8080 ELSE url.port,
                   path |-> url.path]]

\* Invite::new(name, url, inner_key, outer_key)
InviteNew(name, url, inner, outer) ==
    [name |-> name, url |-> url, inner_key |-> inner, outer_key |-> outer]

ServerConfigFromInviteSwapsKeys(invite) ==
    IF CreateWebsocketUrl(invite.url).ok
    THEN [ok |-> TRUE,
          server |-> [name |-> invite.name, url |-> CreateWebsocketUrl(invite.url).url,
                      inner_key |-> invite.outer_key, outer_key |-> invite.inner_key]]
    ELSE [ok |-> FALSE, server |-> [name |-> "", url |-> invite.url, inner_key |-> 0, outer_key |-> 0]]

\* ServerConfig::from_invite
ServerConfigFromInvite(invite) ==
    IF CreateWebsocketUrl(invite.url).ok
    THEN [ok |-> TRUE,
          server |-> [name |-> invite.name, url |-> CreateWebsocketUrl(invite.url).url,
                      inner_key |-> invite.inner_key, outer_key |-> invite.outer_key]]
    ELSE [ok |-> FALSE, server |-> [name |-> "", url |-> invite.url, inner_key |-> 0, outer_key |-> 0]]

\* ServiceConfig::new(name, url, ip, port), for a url that parses
ServiceConfigNew(name, url) ==
    [name |-> name, url |-> CreateWebsocketUrl(url).url, servers |-> << >>, clients |-> << >>]

AddClientAllowsDuplicates(self, name, ip, inner, outer) ==
    LET none == InviteNew("", self.url, 0, 0) IN
    IF ~IpOrRangeNew(ip).ok
    THEN [ok |-> FALSE, err |-> "Parse", config |-> self, invite |-> none]
    ELSE IF name = ""
    THEN [ok |-> FALSE, err |-> "Peer", config |-> self, invite |-> none]
    ELSE LET client == ClientConfigNew(name, IpOrRangeNew(ip).value, inner, outer) IN
         [ok |-> TRUE, err |-> "",
          config |-> [self EXCEPT !.clients = Append(@, client)],
          invite |-> InviteNew(self.name, self.url, client.inner_key, client.outer_key)]

\* ServiceConfig::add_client(name, ip), inner and outer being the keys
\* Key::generate() returns: [ok, err, config, invite]
ServiceAddClient(self, name, ip, inner, outer) ==
    LET none == InviteNew("", self.url, 0, 0) IN
    IF ~IpOrRangeNew(ip).ok
    THEN [ok |-> FALSE, err |-> "Parse", config |-> self, invite |-> none]
    ELSE IF name = ""
    THEN [ok |-> FALSE, err |-> "Peer", config |-> self, invite |-> none]
    ELSE IF \E i \in 1 .. Len(self.clients) : self.clients[i].name = Some(name)
    THEN [ok |-> FALSE, err |-> "Peer", config |-> self, invite |-> none]
    ELSE LET client == ClientConfigNew(name, IpOrRangeNew(ip).value, inner, outer) IN
         [ok |-> TRUE, err |-> "",
          config |-> [self EXCEPT !.clients = Append(@, client)],
          invite |-> InviteNew(self.name, self.url, client.inner_key, client.outer_key)]

\* ServiceConfig::add_server(invite): [ok, err, config]
ServiceAddServer(self, invite) ==
    IF \E i \in 1 .. Len(self.servers) : self.servers[i].name = invite.name
    THEN [ok |-> FALSE, err |-> "Peer", config |-> self]
    ELSE IF ~ServerConfigFromInvite(invite).ok
    THEN [ok |-> FALSE, err |-> "Parse", config |-> self]
    ELSE IF ServerConfigFromInvite(invite).server.url.host = ""
    THEN [ok |-> FALSE, err |-> "Null", config |-> self]
    ELSE [ok |-> TRUE, err |-> "",
          config |-> [self EXCEPT !.servers = Append(@, ServerConfigFromInvite(invite).server)]]

\* ServiceConfig::remove_client(name): [ok, err, config]
ServiceRemoveClient(self, name) ==
    LET keep(client) == client.name # Some(name) IN
    [ok |-> TRUE, err |-> "", config |-> [self EXCEPT !.clients = SelectSeq(@, keep)]]

\* ServiceConfig::remove_server(name): [ok, err, config]
ServiceRemoveServer(self, name) ==
    LET keep(server) == server.name # name IN
    [ok |-> TRUE, err |-> "", config |-> [self EXCEPT !.servers = SelectSeq(@, keep)]]

Services == {"primary", "secondary"}

HttpLocalhost == [scheme |-> "http", host |-> "localhost", port |-> 0, path |-> "/"]

NoConfRet == [op |-> "", by |-> "", for |-> "", ok |-> TRUE, err |-> "", invite |-> InviteNew("", HttpLocalhost, 0, 0)]

\* no service is being configured
ConfIdle ==
    /\ svc = [s \in Services |-> ServiceConfigNew(s, HttpLocalhost)]
    /\ invites = {}
    /\ nkey = 0
    /\ confret = NoConfRet

(***************************************************************************)
(* Text.  A text is the sequence of its characters; the verbs of the       *)
(* grammar are written as one symbol each, a word without separators.      *)
(***************************************************************************)
\* what str::trim removes at both ends
Whitespace == {" ", "\t"}

\* str::split(c): the parts between the occurrences of c, one more than
\* there are occurrences
RECURSIVE SplitOn(_, _)
SplitOn(s, c) ==
    IF \A i \in 1 .. Len(s) : s[i] # c
    THEN <<s>>
    ELSE LET k == CHOOSE i \in 1 .. Len(s) : s[i] = c /\ \A j \in 1 .. (i - 1) : s[j] # c IN
         <<SubSeq(s, 1, k - 1)>> \o SplitOn(SubSeq(s, k + 1, Len(s)), c)

\* [&str]::join(c)
RECURSIVE JoinWith(_, _)
JoinWith(parts, c) ==
    IF parts = << >> THEN << >>
    ELSE IF Len(parts) = 1 THEN parts[1]
    ELSE parts[1] \o <<c>> \o JoinWith(Tail(parts), c)

RECURSIVE TrimStart(_)
TrimStart(s) ==
    IF s # << >> /\ Head(s) \in Whitespace THEN TrimStart(Tail(s)) ELSE s

RECURSIVE TrimEnd(_)
TrimEnd(s) ==
    IF s # << >> /\ s[Len(s)] \in Whitespace THEN TrimEnd(SubSeq(s, 1, Len(s) - 1)) ELSE s

\* str::trim
Trim(s) == TrimEnd(TrimStart(s))

(***************************************************************************)
(* templemeads grammar: UserIdentifier, UserMapping and Instruction.       *)
(***************************************************************************)
\* UserIdentifier::default()
UserIdentifierDefault == [username |-> << >>, project |-> << >>, portal |-> << >>]

UserIdentifierParseUntrimmed(identifier) ==
    LET parts == SplitOn(identifier, ".") IN
    IF Len(parts) # 3
    THEN [ok |-> FALSE, err |-> "Parse", value |-> UserIdentifierDefault]
    ELSE IF parts[1] = << >> \/ parts[2] = << >> \/ parts[3] = << >>
    THEN [ok |-> FALSE, err |-> "Parse", value |-> UserIdentifierDefault]
    ELSE [ok |-> TRUE, err |-> "",
          value |-> [username |-> parts[1], project |-> parts[2], portal |-> parts[3]]]

\* UserIdentifier::parse
UserIdentifierParse(identifier) ==
    LET parts == SplitOn(identifier, ".") IN
    IF Len(parts) # 3
    THEN [ok |-> FALSE, err |-> "Parse", value |-> UserIdentifierDefault]
    ELSE LET username == Trim(parts[1])
             project == Trim(parts[2])
             portal == Trim(parts[3]) IN
         IF username = << >>
         THEN [ok |-> FALSE, err |-> "Parse", value |-> UserIdentifierDefault]
         ELSE IF project = << >>
         THEN [ok |-> FALSE, err |-> "Parse", value |-> UserIdentifierDefault]
         ELSE IF portal = << >>
         THEN [ok |-> FALSE, err |-> "Parse", value |-> UserIdentifierDefault]
         ELSE [ok |-> TRUE, err |-> "",
               value |-> [username |-> username, project |-> project, portal |-> portal]]

\* UserIdentifier::is_valid
UserIdentifierIsValid(self) ==
    self.username # << >> /\ self.project # << >> /\ self.portal # << >>

\* Display for UserIdentifier
UserIdentifierToString(self) ==
    self.username \o <<".">> \o self.project \o <<".">> \o self.portal

\* UserMapping::default()
UserMappingDefault ==
    [user |-> UserIdentifierDefault, local_user |-> << >>, local_project |-> << >>]

\* UserMapping::new
UserMappingNew(user, local_user, local_project) ==
    IF Trim(local_user) = << >>
    THEN [ok |-> FALSE, err |-> "Parse", value |-> UserMappingDefault]
    ELSE IF Trim(local_project) = << >>
    THEN [ok |-> FALSE, err |-> "Parse", value |-> UserMappingDefault]
    ELSE [ok |-> TRUE, err |-> "",
          value |-> [user |-> user, local_user |-> Trim(local_user),
                     local_project |-> Trim(local_project)]]

\* UserMapping::parse
UserMappingParse(identifier) ==
    LET parts == SplitOn(identifier, ":") IN
    IF Len(parts) # 3
    THEN [ok |-> FALSE, err |-> "Parse", value |-> UserMappingDefault]
    ELSE IF ~UserIdentifierParse(parts[1]).ok
    THEN [ok |-> FALSE, err |-> "Parse", value |-> UserMappingDefault]
    ELSE IF Trim(parts[2]) = << >>
    THEN [ok |-> FALSE, err |-> "Parse", value |-> UserMappingDefault]
    ELSE IF Trim(parts[3]) = << >>
    THEN [ok |-> FALSE, err |-> "Parse", value |-> UserMappingDefault]
    ELSE [ok |-> TRUE, err |-> "",
          value |-> [user |-> UserIdentifierParse(parts[1]).value,
                     local_user |-> Trim(parts[2]), local_project |-> Trim(parts[3])]]

\* UserMapping::is_valid
UserMappingIsValid(self) ==
    UserIdentifierIsValid(self.user) /\ self.local_user # << >> /\ self.local_project # << >>

\* Display for UserMapping
UserMappingToString(self) ==
    UserIdentifierToString(self.user) \o <<":">> \o self.local_user
        \o <<":">> \o self.local_project

\* the variants of Instruction; a variant leaves the fields it does not
\* have at their defaults
AddUser(user) ==
    [kind |-> "AddUser", user |-> user, mapping |-> UserMappingDefault, homedir |-> << >>]
RemoveUser(user) ==
    [kind |-> "RemoveUser", user |-> user, mapping |-> UserMappingDefault, homedir |-> << >>]
AddLocalUser(mapping) ==
    [kind |-> "AddLocalUser", user |-> UserIdentifierDefault, mapping |-> mapping, homedir |-> << >>]
RemoveLocalUser(mapping) ==
    [kind |-> "RemoveLocalUser", user |-> UserIdentifierDefault, mapping |-> mapping, homedir |-> << >>]
UpdateHomeDir(user, homedir) ==
    [kind |-> "UpdateHomeDir", user |-> user, mapping |-> UserMappingDefault, homedir |-> homedir]
Invalid ==
    [kind |-> "Invalid", user |-> UserIdentifierDefault, mapping |-> UserMappingDefault, homedir |-> << >>]

\* the rest of the words after the first: parts[1..].join(" ")
RestOf(parts) == JoinWith(Tail(parts), " ")

InstructionNewKeepsEmptyHomedir(s) ==
    LET parts == SplitOn(s, " ") IN
    CASE parts[1] = <<"add_user">> ->
           IF UserIdentifierParse(RestOf(parts)).ok
           THEN AddUser(UserIdentifierParse(RestOf(parts)).value) ELSE Invalid
      [] parts[1] = <<"remove_user">> ->
           IF UserIdentifierParse(RestOf(parts)).ok
           THEN RemoveUser(UserIdentifierParse(RestOf(parts)).value) ELSE Invalid
      [] parts[1] = <<"add_local_user">> ->
           IF UserMappingParse(RestOf(parts)).ok
           THEN AddLocalUser(UserMappingParse(RestOf(parts)).value) ELSE Invalid
      [] parts[1] = <<"remove_local_user">> ->
           IF UserMappingParse(RestOf(parts)).ok
           THEN RemoveLocalUser(UserMappingParse(RestOf(parts)).value) ELSE Invalid
      [] parts[1] = <<"update_homedir">> ->
           IF Len(parts) < 3 THEN Invalid
           ELSE IF UserIdentifierParse(parts[2]).ok
           THEN UpdateHomeDir(UserIdentifierParse(parts[2]).value, Trim(parts[3]))
           ELSE Invalid
      [] OTHER -> Invalid

\* Instruction::new
InstructionNew(s) ==
    LET parts == SplitOn(s, " ") IN
    CASE parts[1] = <<"add_user">> ->
           IF UserIdentifierParse(RestOf(parts)).ok
           THEN AddUser(UserIdentifierParse(RestOf(parts)).value) ELSE Invalid
      [] parts[1] = <<"remove_user">> ->
           IF UserIdentifierParse(RestOf(parts)).ok
           THEN RemoveUser(UserIdentifierParse(RestOf(parts)).value) ELSE Invalid
      [] parts[1] = <<"add_local_user">> ->
           IF UserMappingParse(RestOf(parts)).ok
           THEN AddLocalUser(UserMappingParse(RestOf(parts)).value) ELSE Invalid
      [] parts[1] = <<"remove_local_user">> ->
           IF UserMappingParse(RestOf(parts)).ok
           THEN RemoveLocalUser(UserMappingParse(RestOf(parts)).value) ELSE Invalid
      [] parts[1] = <<"update_homedir">> ->
           IF Len(parts) < 3 THEN Invalid
           ELSE IF Trim(parts[3]) = << >> THEN Invalid
           ELSE IF UserIdentifierParse(parts[2]).ok
           THEN UpdateHomeDir(UserIdentifierParse(parts[2]).value, Trim(parts[3]))
           ELSE Invalid
      [] OTHER -> Invalid

\* Instruction::is_valid
InstructionIsValid(self) ==
    CASE self.kind = "AddUser" -> UserIdentifierIsValid(self.user)
      [] self.kind = "RemoveUser" -> UserIdentifierIsValid(self.user)
      [] self.kind = "AddLocalUser" -> UserMappingIsValid(self.mapping)
      [] self.kind = "RemoveLocalUser" -> UserMappingIsValid(self.mapping)
      [] self.kind = "UpdateHomeDir" -> UserIdentifierIsValid(self.user) /\ self.homedir # << >>
      [] OTHER -> FALSE

\* Display for Instruction
InstructionToString(self) ==
    CASE self.kind = "AddUser" -> <<"add_user", " ">> \o UserIdentifierToString(self.user)
      [] self.kind = "RemoveUser" -> <<"remove_user", " ">> \o UserIdentifierToString(self.user)
      [] self.kind = "AddLocalUser" -> <<"add_local_user", " ">> \o UserMappingToString(self.mapping)
      [] self.kind = "RemoveLocalUser" ->
           <<"remove_local_user", " ">> \o UserMappingToString(self.mapping)
      [] self.kind = "UpdateHomeDir" ->
           <<"update_homedir", " ">> \o UserIdentifierToString(self.user) \o <<" ">> \o self.homedir
      [] OTHER -> <<"invalid">>

\* serde_json of a string: quoted, with the quote, the backslash and the
\* tab escaped
RECURSIVE JsonEscape(_)
JsonEscape(s) ==
    IF s = << >> THEN << >>
    ELSE (CASE Head(s) = "\t" -> <<"\\", "t">>
            [] Head(s) = "\"" -> <<"\\", "\"">>
            [] Head(s) = "\\" -> <<"\\", "\\">>
            [] OTHER -> <<Head(s)>>) \o JsonEscape(Tail(s))

RECURSIVE JsonUnescape(_)
JsonUnescape(s) ==
    IF s = << >> THEN << >>
    ELSE IF Head(s) = "\\" /\ Len(s) >= 2
    THEN <<IF s[2] = "t" THEN "\t" ELSE s[2]>> \o JsonUnescape(Tail(Tail(s)))
    ELSE <<Head(s)>> \o JsonUnescape(Tail(s))

\* Serialize for Instruction: the JSON of to_string()
InstructionSerialize(self) ==
    <<"\"">> \o JsonEscape(InstructionToString(self)) \o <<"\"">>

\* Deserialize for Instruction: Instruction::new of the JSON string
InstructionDeserialize(json) ==
    InstructionNew(JsonUnescape(SubSeq(json, 2, Len(json) - 1)))

(***************************************************************************)
(* templemeads job: Command and Job::parse.                                *)
(***************************************************************************)
\* str::split_whitespace: the non-empty pieces between whitespace
RECURSIVE SplitWhitespace(_)
SplitWhitespace(s) ==
    LET t == TrimStart(s) IN
    IF t = << >> THEN << >>
    ELSE IF \A i \in 1 .. Len(t) : t[i] \notin Whitespace
    THEN <<t>>
    ELSE LET k == CHOOSE i \in 1 .. Len(t) :
                      t[i] \in Whitespace /\ \A j \in 1 .. (i - 1) : t[j] \notin Whitespace IN
         <<SubSeq(t, 1, k - 1)>> \o SplitWhitespace(SubSeq(t, k + 1, Len(t)))

\* Destination::new: the agent names between the dots
DestinationNew(destination) == SplitOn(destination, ".")

\* Destination::is_valid: a non-empty sequence of agent names
DestinationIsValid(self) ==
    self # << >> /\ \A i \in 1 .. Len(self) : self[i] # << >>

\* Command::new
CommandNew(command) ==
    LET parts == SplitWhitespace(command) IN
    [destination |-> DestinationNew(IF parts = << >> THEN << >> ELSE Head(parts)),
     instruction |-> InstructionNew(IF parts = << >> THEN << >> ELSE JoinWith(Tail(parts), " "))]

CommandIsValidDestinationOnly(self) ==
    DestinationIsValid(self.destination)

\* Command::is_valid
CommandIsValid(self) ==
    DestinationIsValid(self.destination) /\ InstructionIsValid(self.instruction)

\* Job::parse, id and t being what Uuid::new_v4() and Utc::now() give
JobParse(command, id, t) ==
    LET job == JobNew(id, CommandNew(command).destination, CommandNew(command).instruction, t) IN
    IF ~CommandIsValid(CommandNew(command))
    THEN [ok |-> FALSE, err |-> "Parse", job |-> None]
    ELSE [ok |-> TRUE, err |-> "", job |-> Some(job)]

\* bridge run with a portal agent: Job::parse(command)?.put(&portal);
\* put names the job that was put
BridgeRun(command, id, t) ==
    IF ~JobParse(command, id, t).ok
    THEN [ok |-> FALSE, err |-> JobParse(command, id, t).err, job |-> None, put |-> None]
    ELSE [ok |-> TRUE, err |-> "", job |-> JobParse(command, id, t).job,
          put |-> JobParse(command, id, t).job]

BridgeRunIgnoresPortal(portal, command, id, t) == BridgeRun(command, id, t)

\* bridge run(command), portal being what agent::portal() gives
BridgeRunWith(portal, command, id, t) ==
    IF IsSome(portal)
    THEN BridgeRun(command, id, t)
    ELSE [ok |-> FALSE, err |-> "NoPortal", job |-> None, put |-> None]

\* bridge status(job), portal being what agent::portal() gives and b
\* the board state::get(&portal) gives
BridgeStatus(portal, b, id) ==
    IF IsSome(portal)
    THEN IF BoardGet(b, id).ok
         THEN [ok |-> TRUE, err |-> "", job |-> Some(BoardGet(b, id).job)]
         ELSE [ok |-> FALSE, err |-> BoardGet(b, id).err, job |-> None]
    ELSE [ok |-> FALSE, err |-> "NoPortal", job |-> None]

(***************************************************************************)
(* paddington crypto: Key and EncryptedData.  A key is the record of its   *)
(* bytes: n for the n-th key drawn by Key::generate(), 0 for bytes that    *)
(* are not of the length of a key.  The AEAD is the ideal one: each        *)
(* character is sealed to a symbol only the key opens, and the tag names   *)
(* the key, the nonce and the symbols it was computed from.                *)
(***************************************************************************)
\* Key::generate(), the n-th draw
KeyGenerate(n) == [data |-> n]

\* aead::SecretKey::from_slice succeeds on the bytes
IsSecretKey(data) == data # 0

\* aead::seal(key, plaintext) with the nonce it drew: nonce, symbols, tag
AeadSeal(key, nonce, plaintext) ==
    LET body == [i \in 1 .. Len(plaintext) |-> [k |-> key, n |-> nonce, i |-> i, b |-> plaintext[i]]] IN
    <<[nonce |-> nonce]>> \o body \o <<[tag |-> <<key, [nonce |-> nonce], body>>]>>

\* aead::open(key, data): the plaintext when the tag is the one of key,
\* nonce and symbols
AeadOpen(key, data) ==
    IF Len(data) < 2
    THEN [ok |-> FALSE, plaintext |-> << >>]
    ELSE LET body == SubSeq(data, 2, Len(data) - 1) IN
         IF data[Len(data)] = [tag |-> <<key, data[1], body>>]
         THEN [ok |-> TRUE, plaintext |-> [i \in 1 .. Len(body) |-> body[i].b]]
         ELSE [ok |-> FALSE, plaintext |-> << >>]

\* serde_json::to_string of a string
JsonToString(s) == <<"\"">> \o JsonEscape(s) \o <<"\"">>

\* the inside of a JSON string: no bare quote or tab, every backslash
\* starts an escape
RECURSIVE WellEscaped(_)
WellEscaped(s) ==
    IF s = << >> THEN TRUE
    ELSE IF Head(s) = "\\"
    THEN Len(s) >= 2 /\ s[2] \in {"t", "\"", "\\"} /\ WellEscaped(Tail(Tail(s)))
    ELSE Head(s) \notin {"\"", "\t"} /\ WellEscaped(Tail(s))

\* serde_json::from_str to a string
JsonFromStr(json) ==
    IF Len(json) >= 2 /\ json[1] = "\"" /\ json[Len(json)] = "\""
          /\ WellEscaped(SubSeq(json, 2, Len(json) - 1))
    THEN [ok |-> TRUE, value |-> JsonUnescape(SubSeq(json, 2, Len(json) - 1))]
    ELSE [ok |-> FALSE, value |-> << >>]

KeyEncryptSealsPlainText(self, data, nonce) ==
    IF ~IsSecretKey(self.data)
    THEN [ok |-> FALSE, err |-> "Key", sealed |-> [data |-> << >>, version |-> 0]]
    ELSE [ok |-> TRUE, err |-> "",
          sealed |-> [data |-> AeadSeal(self.data, nonce, data), version |-> 1]]

\* Key::encrypt, nonce being the one aead::seal draws
KeyEncrypt(self, data, nonce) ==
    IF ~IsSecretKey(self.data)
    THEN [ok |-> FALSE, err |-> "Key", sealed |-> [data |-> << >>, version |-> 0]]
    ELSE [ok |-> TRUE, err |-> "",
          sealed |-> [data |-> AeadSeal(self.data, nonce, JsonToString(data)), version |-> 1]]

KeyDecryptChecksVersionLast(self, data) ==
    IF ~IsSecretKey(self.data)
    THEN [ok |-> FALSE, err |-> "Key", value |-> None, opened |-> FALSE]
    ELSE IF ~AeadOpen(self.data, data.data).ok
    THEN [ok |-> FALSE, err |-> "Open", value |-> None, opened |-> TRUE]
    ELSE IF data.version # 1
    THEN [ok |-> FALSE, err |-> "UnsupportedVersion", value |-> None, opened |-> TRUE]
    ELSE IF ~JsonFromStr(AeadOpen(self.data, data.data).plaintext).ok
    THEN [ok |-> FALSE, err |-> "Json", value |-> None, opened |-> TRUE]
    ELSE [ok |-> TRUE, err |-> "", opened |-> TRUE,
          value |-> Some(JsonFromStr(AeadOpen(self.data, data.data).plaintext).value)]

\* Key::decrypt; opened tells whether aead::open was called
KeyDecrypt(self, data) ==
    IF data.version # 1
    THEN [ok |-> FALSE, err |-> "UnsupportedVersion", value |-> None, opened |-> FALSE]
    ELSE IF ~IsSecretKey(self.data)
    THEN [ok |-> FALSE, err |-> "Key", value |-> None, opened |-> FALSE]
    ELSE IF ~AeadOpen(self.data, data.data).ok
    THEN [ok |-> FALSE, err |-> "Open", value |-> None, opened |-> TRUE]
    ELSE IF ~JsonFromStr(AeadOpen(self.data, data.data).plaintext).ok
    THEN [ok |-> FALSE, err |-> "Json", value |-> None, opened |-> TRUE]
    ELSE [ok |-> TRUE, err |-> "", opened |-> TRUE,
          value |-> Some(JsonFromStr(AeadOpen(self.data, data.data).plaintext).value)]

(***************************************************************************)
(* The cache of the slurm agent: one Database behind one RwLock.           *)
(***************************************************************************)
\* the number of daily reports of a project at which set_report evicts
ReportLimit == 30

EmptyMap == [k \in {} |-> 0]

\* HashMap::insert and HashMap::remove
MapInsert(map, key, value) ==
    [k \in DOMAIN map \cup {key} |-> IF k = key THEN value ELSE map[k]]

MapRemove(map, key) == [k \in DOMAIN map \ {key} |-> map[k]]

\* Database::default()
DatabaseDefault ==
    [cluster |-> None, accounts |-> EmptyMap, users |-> EmptyMap,
     nodes |-> None, reports |-> EmptyMap]

\* get_cluster
GetCluster(db) == IF IsSome(db.cluster) THEN db.cluster[1] ELSE "linux"

\* set_cluster
SetCluster(db, cluster) == [db EXCEPT !.cluster = Some(cluster)]

\* add_account: keyed by the account's name
AddAccount(db, account) ==
    [db EXCEPT !.accounts = MapInsert(db.accounts, account.name, account)]

\* add_user: keyed by the user's name
CacheAddUser(db, user) ==
    [db EXCEPT !.users = MapInsert(db.users, user.name, user)]

\* SlurmNodes::new(default) and SlurmNodes::set_default
SlurmNodesNew(node) == [default |-> node]

\* set_default_node
SetDefaultNode(db, node) ==
    [db EXCEPT !.nodes = IF IsSome(db.nodes)
                         THEN Some([db.nodes[1] EXCEPT !.default = node])
                         ELSE Some(SlurmNodesNew(node))]

ClearDropsEverything(db) == DatabaseDefault

\* clear
Clear(db) == [db EXCEPT !.accounts = EmptyMap, !.users = EmptyMap]

\* get_report
GetReport(db, project, date) ==
    IF project \in DOMAIN db.reports
    THEN IF date \in DOMAIN db.reports[project]
         THEN Some(db.reports[project][date])
         ELSE None
    ELSE None

\* DailyProjectUsageReport::is_complete
IsComplete(report) == report.complete

ChecksIgnoreCompleteness(date, report, today) ==
    IF date > today THEN "Bug" ELSE "Ok"

\* set_report, what it checks before it takes the lock
SetReportChecks(date, report, today) ==
    IF date > today THEN "Bug"
    ELSE IF ~IsComplete(report) THEN "Bug"
    ELSE "Ok"

EvictsAboveLimit(usage) == Cardinality(DOMAIN usage) > ReportLimit

\* set_report, the condition of its while loop
NeedsEviction(usage) == Cardinality(DOMAIN usage) >= ReportLimit

\* set_report, the date its for loop leaves in oldest: it starts from
\* today and takes every key that is earlier than what it holds
RECURSIVE OldestOf(_, _)
OldestOf(keys, oldest) ==
    IF keys = {} THEN oldest
    ELSE LET date == CHOOSE k \in keys : TRUE
         IN OldestOf(keys \ {date}, IF date < oldest THEN date ELSE oldest)

\* set_report, one turn of its while loop
EvictOldest(usage, today) == MapRemove(usage, OldestOf(DOMAIN usage, today))

\* set_report, the insertion that follows the loop or creates the project
InsertReport(reports, project, date, report) ==
    IF project \in DOMAIN reports
    THEN [reports EXCEPT ![project] = MapInsert(reports[project], date, report)]
    ELSE MapInsert(reports, project, MapInsert(EmptyMap, date, report))

\* the tasks that call into the cache
Tasks == 1 .. MaxTasks

\* a task that has called nothing: op is the function it calls, before
\* the cache as it was when the write lock was granted to it
NoCacheCall ==
    [op |-> "", pc |-> "idle", project |-> "", date |-> 0,
     report |-> [complete |-> FALSE, value |-> 0],
     today |-> 0, before |-> DatabaseDefault, iters |-> 0, ret |-> "none"]

\* the cache as constructed, nobody calling
CacheIdle ==
    /\ cache = DatabaseDefault
    /\ lockh = 0
    /\ ctask = [t \in Tasks |-> NoCacheCall]

(***************************************************************************)
(* paddington eventloop::run.  A task is the record of its kind, the peer  *)
(* it connects to, the exchange it was given and whether it has finished.  *)
(***************************************************************************)
\* ServiceConfig::is_null, has_clients and get_servers
ServiceIsNull(config) == config.name = ""
HasClients(config) == config.clients # << >>
GetServers(config) == config.servers

SpawnsListenerAlways(config, exchange) ==
    <<[kind |-> "server", peer |-> 0, exchange |-> exchange, finished |-> FALSE]>>
      \o [i \in 1 .. Len(GetServers(config)) |->
            [kind |-> "client", peer |-> GetServers(config)[i],
             exchange |-> exchange, finished |-> FALSE]]

\* run, the tasks it spawns: the handles of server_handles, then those of
\* client_handles
SpawnTasks(config, exchange) ==
    (IF HasClients(config)
     THEN <<[kind |-> "server", peer |-> 0, exchange |-> exchange, finished |-> FALSE]>>
     ELSE << >>)
      \o [i \in 1 .. Len(GetServers(config)) |->
            [kind |-> "client", peer |-> GetServers(config)[i],
             exchange |-> exchange, finished |-> FALSE]]

\* run up to its first handle.await: [done, ret, tasks]
RunStart(args) ==
    CASE args.kind = "Err" -> [done |-> TRUE, ret |-> "Err", tasks |-> << >>]
      [] args.kind = "ServiceConfig" ->
           IF ServiceIsNull(args.config)
           THEN [done |-> TRUE, ret |-> "Ok", tasks |-> << >>]
           ELSE [done |-> SpawnTasks(args.config, 1) = << >>, ret |-> "Ok",
                 tasks |-> SpawnTasks(args.config, 1)]
      [] args.kind = "Invite" ->
           [done |-> TRUE, ret |-> IF args.saves THEN "Ok" ELSE "Err", tasks |-> << >>]
      [] OTHER -> [done |-> TRUE, ret |-> "Ok", tasks |-> << >>]

NoArgs == [kind |-> "None", config |-> [name |-> "", clients |-> << >>, servers |-> << >>],
           saves |-> TRUE]

\* eventloop::run has not been called
LoopIdle ==
    /\ epc = "off"
    /\ eargs = NoArgs
    /\ etasks = << >>
    /\ ejoined = 0
    /\ eret = "none"

(***************************************************************************)
(* The write lock of the Account's board as the Instance handler (slurm    *)
(* main.rs 116-173) and the task that receives the Account's replies take  *)
(* it.  The receiving task has the number 0 - 1.                           *)
(***************************************************************************)
Handlers == 1 .. MaxHandlers

Receiver == 0 - 1

GuardOutlivesBlock(holder) == holder

\* the end of a block that holds `let mut board = board.write().await`:
\* the guard is dropped, nobody holds the lock
DropGuard(holder) == 0

\* the places at which a handler is suspended or has returned
Suspended ==
    {"off", "start", "put", "update", "towait", "waiting", "toresult", "final", "ok", "err"}

\* no handler runs and no reply waits
LockIdle ==
    /\ blk = 0
    /\ lpc = [h \in Handlers |-> "off"]
    /\ lterm = {}
    /\ lrcv = [pc |-> "idle", for |-> 0]

\* no function is being called
CallIdle ==
    /\ call = [kind |-> "none"]
    /\ result = << >>

\* the state of every part a specification does not drive, own being the
\* part it drives itself
AuxIdle(own) ==
    /\ IF own = "ctl" THEN TRUE ELSE CtlIdle
    /\ IF own = "run" THEN TRUE ELSE RunIdle
    /\ IF own = "conf" THEN TRUE ELSE ConfIdle
    /\ IF own = "call" THEN TRUE ELSE CallIdle
    /\ IF own = "cache" THEN TRUE ELSE CacheIdle
    /\ IF own = "loop" THEN TRUE ELSE LoopIdle
    /\ IF own = "lock" THEN TRUE ELSE LockIdle

\* what no connection changes
RestInit ==
    /\ chan = [pr \in Pairs |-> << >>]
    /\ board = [pr \in Pairs |-> EmptyBoard]
    /\ cpc = [pr \in Pairs |-> "idle"]
    /\ hpc = [x \in PortalIds |-> "none"]
    /\ hjob = [x \in PortalIds |-> NoJob]
    /\ hadd = [x \in PortalIds |-> NoJob]
    /\ hres = [x \in PortalIds |-> NoJob]
    /\ apc = [y \in AddIds |-> "none"]
    /\ ajob = [y \in AddIds |-> NoJob]
    /\ submitted = 0
    /\ ndisc = 0
    /\ cut = {}

\* the agents as constructed: no connection, nothing registered
BootInit ==
    /\ up = [l \in Links |-> FALSE]
    /\ registry = [a \in Agents |-> {}]
    /\ RestInit
    /\ ClientIdle
    /\ AuxIdle("")

\* the state Spec starts in: the portal and the Instance have connected
\* and exchanged their (empty) boards, the Account has not connected yet.
\* SpecBoot reaches it from BootInit.
SysInit ==
    /\ up = [l \in Links |-> l = "PI"]
    /\ registry = [a \in Agents |-> CASE a = "P" -> {"I"} [] a = "I" -> {"P"} [] OTHER -> {}]
    /\ RestInit
    /\ ClientIdle
    /\ AuxIdle("")

\* the waiters of notify resolve with job
Fire(hr, notify, job) == [x \in DOMAIN hr |-> IF x \in notify THEN job ELSE hr[x]]

\* the jobs of a board ordered by id
RECURSIVE SortedJobs(_, _)
SortedJobs(jobs, ids) ==
    IF ids = {} THEN << >>
    ELSE LET m == CHOOSE i \in ids : \A k \in ids : i <= k
         IN <<jobs[m]>> \o SortedJobs(jobs, ids \ {m})

Snapshot(b) == SortedJobs(b.jobs, DOMAIN b.jobs)

\* each job of js added in order by the ordinary add rule (a refused job is
\* discarded); hr is the waiters' results
RECURSIVE AddAll(_, _, _)
AddAll(b, hr, js) ==
    IF js = << >> THEN [board |-> b, hres |-> hr]
    ELSE LET r == BoardAdd(b, Head(js))
         IN AddAll(r.board, Fire(hr, r.notify, Head(js)), Tail(js))

\* exchange send: the message goes on the stream of a connected peer, and
\* on the board's queued list of a peer that is not connected
Transmit(ch, bd, a, p, m) ==
    IF up[Link(a, p)]
    THEN [chan |-> [ch EXCEPT ![<<a, p>>] = Append(@, m)], board |-> bd]
    ELSE [chan |-> ch,
          board |-> [bd EXCEPT ![<<a, p>>] = BoardQueueForSend(@, m)]]

\* Command::put(job).send_to(p) and Command::update(job).send_to(p) by
\* agent a: the job is written to a's board for p, then the frame is sent
CommandSend(ch, bd, hr, a, p, m) ==
    LET r == BoardAdd(bd[<<a, p>>], m.job)
        t == Transmit(ch, [bd EXCEPT ![<<a, p>>] = r.board], a, p, m)
    IN IF r.ok
       THEN [ok |-> TRUE, chan |-> t.chan, board |-> t.board,
             hres |-> Fire(hr, r.notify, m.job)]
       ELSE [ok |-> FALSE, chan |-> ch, board |-> bd, hres |-> hr]

(***************************************************************************)
(* Connections and the Connected control message                           *)
(* (control_message.rs: register, then sync_board, then send_queued).      *)
(***************************************************************************)
\* a handshake succeeds: both ends process Connected{agent, zone}
Opened(l) ==
    /\ ~up[l]
    /\ up' = [up EXCEPT ![l] = TRUE]
    /\ cpc' = [pr \in Pairs |-> IF pr \in PairsOf(l) THEN "register" ELSE cpc[pr]]
    /\ UNCHANGED <<chan, board, registry, handlerVars, submitted, ndisc>>
    /\ UNCHANGED <<jobVars, boardVars, cut>>

Connect(l) == Opened(l) /\ UNCHANGED <<cliVars, auxVars>>

IsData(m) == m.type \in {"Put", "Update"}

\* the jobs a handler is running for the peer at the other end of l
HandlersCut(l) ==
    IF l = "IA"
    THEN {y \in DOMAIN apc : apc[y] = "running"}
    ELSE {x \in DOMAIN hpc : hpc[x] \notin {"none", "replied"}}

DisconnectFailsWaiters(l) ==
    /\ up[l]
    /\ ndisc < MaxDisconnects
    /\ ndisc' = ndisc + 1
    /\ up' = [up EXCEPT ![l] = FALSE]
    /\ board' = [pr \in Pairs |->
                   IF pr \in PairsOf(l)
                   THEN [board[pr] EXCEPT !.queued = @ \o SelectSeq(chan[pr], IsData),
                                          !.waiters = << >>]
                   ELSE board[pr]]
    /\ chan' = [pr \in Pairs |-> IF pr \in PairsOf(l) THEN << >> ELSE chan[pr]]
    /\ cpc' = [pr \in Pairs |->
                 IF pr \in PairsOf(l) /\ cpc[pr] # "idle" THEN "failed" ELSE cpc[pr]]
    /\ hres' = [x \in DOMAIN hres |->
                  IF hpc[x] = "waiting" /\ l = "IA" THEN hjob[x] ELSE hres[x]]
    /\ UNCHANGED <<registry, hpc, hjob, hadd, apc, ajob, submitted, cut>>
    /\ UNCHANGED <<jobVars, boardVars, cliVars, auxVars>>

\* the session ends: its send and receive tasks are cancelled; a put or
\* update that was not delivered times out (NotConnected) and is placed on
\* the queued list.  A Connected sequence that has not finished fails at
\* its next send and returns the error ("failed": the ? of
\* control_message.rs:20-28), its later steps are not performed.
\* Disconnected{agent, zone} is only logged (control_message.rs:30-33):
\* the boards and their waiters are retained.
CloseSession(l) ==
    /\ up[l]
    /\ ndisc < MaxDisconnects
    /\ ndisc' = ndisc + 1
    /\ up' = [up EXCEPT ![l] = FALSE]
    /\ board' = [pr \in Pairs |->
                   IF pr \in PairsOf(l)
                   THEN [board[pr] EXCEPT !.queued = @ \o SelectSeq(chan[pr], IsData)]
                   ELSE board[pr]]
    /\ chan' = [pr \in Pairs |-> IF pr \in PairsOf(l) THEN << >> ELSE chan[pr]]
    /\ cpc' = [pr \in Pairs |->
                 IF pr \in PairsOf(l) /\ cpc[pr] # "idle" THEN "failed" ELSE cpc[pr]]
    /\ UNCHANGED <<registry, handlerVars, submitted>>
    /\ UNCHANGED <<jobVars, boardVars>>

Closed(l) == CloseSession(l) /\ UNCHANGED cut

Disconnect(l) == Closed(l) /\ UNCHANGED <<cliVars, auxVars>>

\* the same close, the handlers that were running for the peer noted in cut
DisconnectCut(l) ==
    /\ CloseSession(l)
    /\ cut' = cut \cup HandlersCut(l)
    /\ UNCHANGED <<cliVars, auxVars>>

CtlRegisterSkipsSync(a, p) ==
    /\ cpc[<<a, p>>] = "register"
    /\ chan' = [chan EXCEPT ![<<a, p>>] = Append(@, RegisterMsg)]
    /\ cpc' = [cpc EXCEPT ![<<a, p>>] = "queued"]
    /\ UNCHANGED <<up, board, registry, handlerVars, submitted, ndisc>>
    /\ UNCHANGED <<jobVars, boardVars, cut, cliVars, auxVars>>

\* Command::register(agent_type).send_to(&peer)
CtlRegister(a, p) ==
    /\ cpc[<<a, p>>] = "register"
    /\ chan' = [chan EXCEPT ![<<a, p>>] = Append(@, RegisterMsg)]
    /\ cpc' = [cpc EXCEPT ![<<a, p>>] = "sync"]
    /\ UNCHANGED <<up, board, registry, handlerVars, submitted, ndisc>>
    /\ UNCHANGED <<jobVars, boardVars, cut, cliVars, auxVars>>

CtlSyncBoardAfterQueued(a, p) ==
    /\ cpc[<<a, p>>] = "sync"
    /\ chan' = [chan EXCEPT ![<<a, p>>] =
                  Append(@ \o board[<<a, p>>].queued, SyncMsg(Snapshot(board[<<a, p>>])))]
    /\ board' = [board EXCEPT ![<<a, p>>].queued = << >>]
    /\ cpc' = [cpc EXCEPT ![<<a, p>>] = "queued"]
    /\ UNCHANGED <<up, registry, handlerVars, submitted, ndisc>>
    /\ UNCHANGED <<jobVars, boardVars, cut, cliVars, auxVars>>

\* job::sync_board(&peer): the board's jobs, ordered by id, go to the peer
CtlSyncBoard(a, p) ==
    /\ cpc[<<a, p>>] = "sync"
    /\ chan' = [chan EXCEPT ![<<a, p>>] = Append(@, SyncMsg(Snapshot(board[<<a, p>>])))]
    /\ cpc' = [cpc EXCEPT ![<<a, p>>] = "queued"]
    /\ UNCHANGED <<up, board, registry, handlerVars, submitted, ndisc>>
    /\ UNCHANGED <<jobVars, boardVars, cut, cliVars, auxVars>>

\* job::send_queued(&peer): the queued list is drained and sent in order
CtlSendQueued(a, p) ==
    /\ cpc[<<a, p>>] = "queued"
    /\ LET d == BoardDrainQueued(board[<<a, p>>]) IN
        /\ board' = [board EXCEPT ![<<a, p>>] = d.board]
        /\ chan' = [chan EXCEPT ![<<a, p>>] = @ \o d.msgs]
    /\ cpc' = [cpc EXCEPT ![<<a, p>>] = "idle"]
    /\ UNCHANGED <<up, registry, handlerVars, submitted, ndisc>>
    /\ UNCHANGED <<jobVars, boardVars, cut, cliVars, auxVars>>

(***************************************************************************)
(* Inbound messages: agent a takes the next message of peer p.             *)
(***************************************************************************)
Inbound(a, p, type) ==
    /\ chan[<<p, a>>] # << >>
    /\ Head(chan[<<p, a>>]).type = type

\* the peer registered its agent type
RecvRegister(a, p) ==
    /\ Inbound(a, p, "Register")
    /\ chan' = [chan EXCEPT ![<<p, a>>] = Tail(@)]
    /\ registry' = [registry EXCEPT ![a] = @ \cup {p}]
    /\ UNCHANGED <<up, board, cpc, handlerVars, submitted, ndisc>>
    /\ UNCHANGED <<jobVars, boardVars, cut, cliVars, auxVars>>

\* the peer's snapshot: each job is applied by the ordinary add rule
RecvSync(a, p) ==
    /\ Inbound(a, p, "Sync")
    /\ LET r == AddAll(board[<<a, p>>], hres, Head(chan[<<p, a>>]).jobs) IN
        /\ board' = [board EXCEPT ![<<a, p>>] = r.board]
        /\ hres' = r.hres
    /\ chan' = [chan EXCEPT ![<<p, a>>] = Tail(@)]
    /\ UNCHANGED <<up, cpc, registry, hpc, hjob, hadd, apc, ajob, submitted, ndisc>>
    /\ UNCHANGED <<jobVars, boardVars, cut, cliVars, auxVars>>

\* Update(job): applied to the board for the sender, the waiters released;
\* a refused version is logged and discarded
RecvUpdate(a, p) ==
    /\ Inbound(a, p, "Update")
    /\ LET job == Head(chan[<<p, a>>]).job
           r == BoardAdd(board[<<a, p>>], job) IN
        /\ board' = [board EXCEPT ![<<a, p>>] = r.board]
        /\ hres' = Fire(hres, r.notify, job)
    /\ chan' = [chan EXCEPT ![<<p, a>>] = Tail(@)]
    /\ UNCHANGED <<up, cpc, registry, hpc, hjob, hadd, apc, ajob, submitted, ndisc>>
    /\ UNCHANGED <<jobVars, boardVars, cut, cliVars, auxVars>>

IsFinalHopAnywhere(agent, job) == \E i \in 1 .. Len(job.dest) : job.dest[i] = agent

\* the job is addressed to agent: agent is the last of its destination
IsFinalHop(agent, job) == Last(job.dest) = agent

\* the agent that follows agent in the job's destination
NextHop(agent, job) ==
    job.dest[(CHOOSE i \in 1 .. Len(job.dest) : job.dest[i] = agent) + 1]

\* Put(job) at the Instance: the job goes on the board for the sender;
\* when the Instance is the last of its destination slurm_runner is
\* started, otherwise the job is put to the next hop and no runner is
\* started
RecvPutInstance ==
    /\ Inbound("I", "P", "Put")
    /\ LET job == Head(chan[<<"P", "I">>]).job
           r == BoardAdd(board[<<"I", "P">>], job)
           run == r.ok /\ IsFinalHop("I", job) /\ hpc[job.id] = "none"
           c == CommandSend([chan EXCEPT ![<<"P", "I">>] = Tail(@)],
                            [board EXCEPT ![<<"I", "P">>] = r.board],
                            Fire(hres, r.notify, job),
                            "I", NextHop("I", job), PutMsg(job)) IN
        IF r.ok /\ ~IsFinalHop("I", job)
        THEN /\ chan' = c.chan
             /\ board' = c.board
             /\ hres' = c.hres
             /\ UNCHANGED <<hpc, hjob>>
        ELSE /\ chan' = [chan EXCEPT ![<<"P", "I">>] = Tail(@)]
             /\ board' = [board EXCEPT ![<<"I", "P">>] = r.board]
             /\ hres' = Fire(hres, r.notify, job)
             /\ hpc' = IF run THEN [hpc EXCEPT ![job.id] = "start"] ELSE hpc
             /\ hjob' = IF run THEN [hjob EXCEPT ![job.id] = job] ELSE hjob
    /\ UNCHANGED <<up, cpc, registry, hadd, apc, ajob, submitted, ndisc>>
    /\ UNCHANGED <<jobVars, boardVars, cut, cliVars, auxVars>>

\* Put(job) at the Account: freeipa_runner is started
RecvPutAccount ==
    /\ Inbound("A", "I", "Put")
    /\ LET job == Head(chan[<<"I", "A">>]).job
           r == BoardAdd(board[<<"A", "I">>], job)
           run == r.ok /\ IsFinalHop("A", job) /\ apc[job.id] = "none" IN
        /\ board' = [board EXCEPT ![<<"A", "I">>] = r.board]
        /\ apc' = IF run THEN [apc EXCEPT ![job.id] = "running"] ELSE apc
        /\ ajob' = IF run THEN [ajob EXCEPT ![job.id] = job] ELSE ajob
    /\ chan' = [chan EXCEPT ![<<"I", "A">>] = Tail(@)]
    /\ UNCHANGED <<up, cpc, registry, hpc, hjob, hadd, hres, submitted, ndisc>>
    /\ UNCHANGED <<jobVars, boardVars, cut, cliVars, auxVars>>

(***************************************************************************)
(* The portal submits a job: Job::parse(command)?.put(&peer).              *)
(***************************************************************************)
SubmitTo(dest, instr, limit) ==
    /\ submitted < limit
    /\ submitted' = submitted + 1
    /\ LET job == JobNew(submitted + 1, dest, instr, 0)
           c == CommandSend(chan, board, hres, "P", "I", PutMsg(job)) IN
        /\ chan' = c.chan
        /\ board' = c.board
        /\ hres' = c.hres
    /\ UNCHANGED <<up, cpc, registry, hpc, hjob, hadd, apc, ajob, ndisc>>
    /\ UNCHANGED <<jobVars, boardVars, cut, cliVars, auxVars>>

SubmitJob(instr, limit) == SubmitTo(<<"P", "I">>, instr, limit)

Submit(instr) == SubmitJob(instr, MaxJobs)

(***************************************************************************)
(* The Instance handler, runner (slurm/src/main.rs:86-204), one step per   *)
(* suspension point.  hpc[x] is the place of the handler of job x:         *)
(*   start    called with the envelope (job = envelope.job())              *)
(*   put      job is on the account's board (117-130)                      *)
(*   update   add_job was put to the account (133)                         *)
(*   waitfor  the Running update was sent to the sender (136-138)          *)
(*   waiting  the waiter was taken, the handler awaits its result (149)    *)
(*   ok, err  the runner returned Ok(job) or Err                           *)
(*   replied  the runtime sent the outcome to the sender                   *)
(***************************************************************************)
\* agent::account(): the peer registered as the Account agent, if any
AccountAgent == IF "A" \in registry["I"] THEN Some("A") ELSE None

\* Job::parse(format!("{}.{} add_user {}", recipient, account, user)):
\* a new job, with an id of its own, for the account
AddJobOf(x) == JobNew(AddJobId(x), <<"I", "A">>, "add_user", 0)

\* main.rs:185-190: no account agent, the runner returns Err(NoAccount)
RunnerNoAccount(x) ==
    /\ hpc[x] = "start"
    /\ hjob[x].instr = "add_user"
    /\ AccountAgent = None
    /\ hpc' = [hpc EXCEPT ![x] = "err"]
    /\ UNCHANGED <<netVars, hjob, hadd, hres, apc, ajob, submitted, ndisc>>
    /\ UNCHANGED <<jobVars, boardVars, cut, cliVars, auxVars>>

\* main.rs:123: what the handler adds to the account's board: job, the
\* job it received
RunnerBoardJob(job, add_job) == job

\* main.rs:99-130: add_job is created and the received job is added to
\* the account's board
RunnerAddUser(x) ==
    /\ hpc[x] = "start"
    /\ hjob[x].instr = "add_user"
    /\ AccountAgent # None
    /\ LET add_job == AddJobOf(x)
           r == BoardAdd(board[<<"I", "A">>], RunnerBoardJob(hjob[x], add_job)) IN
        /\ hadd' = [hadd EXCEPT ![x] = add_job]
        /\ board' = [board EXCEPT ![<<"I", "A">>] = r.board]
        /\ hres' = Fire(hres, r.notify, RunnerBoardJob(hjob[x], add_job))
        /\ hpc' = [hpc EXCEPT ![x] = IF r.ok THEN "put" ELSE "err"]
    /\ UNCHANGED <<up, chan, cpc, registry, hjob, apc, ajob, submitted, ndisc>>
    /\ UNCHANGED <<jobVars, boardVars, cut, cliVars, auxVars>>

\* main.rs:133: Command::put(&add_job).send_to(&account)
RunnerPut(x) ==
    /\ hpc[x] = "put"
    /\ LET c == CommandSend(chan, board, hres, "I", "A", PutMsg(hadd[x])) IN
        /\ chan' = c.chan
        /\ board' = c.board
        /\ hres' = c.hres
        /\ hpc' = [hpc EXCEPT ![x] = IF c.ok THEN "update" ELSE "err"]
    /\ UNCHANGED <<up, cpc, registry, hjob, hadd, apc, ajob, submitted, ndisc>>
    /\ UNCHANGED <<jobVars, boardVars, cut, cliVars, auxVars>>

\* main.rs:136-138: job = job.running(..)?; Command::update(&job).send_to(sender)
RunnerUpdate(x) ==
    /\ hpc[x] = "update"
    /\ LET r == Running(hjob[x], 0)
           c == CommandSend(chan, board, hres, "I", "P", UpdateMsg(r.job))
           ok == r.ok /\ c.ok IN
        /\ chan' = IF ok THEN c.chan ELSE chan
        /\ board' = IF ok THEN c.board ELSE board
        /\ hres' = IF ok THEN c.hres ELSE hres
        /\ hjob' = IF ok THEN [hjob EXCEPT ![x] = r.job] ELSE hjob
        /\ hpc' = [hpc EXCEPT ![x] = IF ok THEN "waitfor" ELSE "err"]
    /\ UNCHANGED <<up, cpc, registry, hadd, apc, ajob, submitted, ndisc>>
    /\ UNCHANGED <<jobVars, boardVars, cut, cliVars, auxVars>>

\* main.rs:144: the job the waiter is taken for: job, not add_job
RunnerWaitedJob(job, add_job) == job

\* main.rs:141-149: waiter = board.wait_for(&job)?; waiter.result().await
RunnerWaitFor(x) ==
    /\ hpc[x] = "waitfor"
    /\ LET w == BoardWaitFor(board[<<"I", "A">>],
                             RunnerWaitedJob(hjob[x], hadd[x]).id, x) IN
        /\ board' = [board EXCEPT ![<<"I", "A">>] = w.board]
        /\ hres' = IF w.resolved THEN [hres EXCEPT ![x] = w.job] ELSE hres
    /\ hpc' = [hpc EXCEPT ![x] = "waiting"]
    /\ UNCHANGED <<up, chan, cpc, registry, hjob, hadd, apc, ajob, submitted, ndisc>>
    /\ UNCHANGED <<jobVars, boardVars, cut, cliVars, auxVars>>

\* main.rs:152-160: the job the handler makes of the waiter's result
RunnerOutcome(job, add_job) ==
    IF JobResult(add_job).ok
    THEN Completed(job, JobResult(add_job).val, 0)
    ELSE Errored(job, "Error adding user to account", 0)

\* main.rs:149-173: the waiter's result arrived: the outcome is added to
\* the account's board and sent to the sender.  Its guard is never true
\* (RunnerNeverResumes), so it is not a disjunct of Next.
RunnerResume(x) ==
    /\ hpc[x] = "waiting"
    /\ hres[x] # NoJob
    /\ LET o == RunnerOutcome(hjob[x], hres[x])
           r == BoardAdd(board[<<"I", "A">>], o.job)
           c == CommandSend(chan, [board EXCEPT ![<<"I", "A">>] = r.board],
                            Fire(hres, r.notify, o.job), "I", "P", UpdateMsg(o.job))
           ok == o.ok /\ r.ok /\ c.ok IN
        /\ chan' = IF ok THEN c.chan ELSE chan
        /\ board' = IF ok THEN c.board ELSE board
        /\ hres' = IF ok THEN c.hres ELSE hres
        /\ hjob' = IF ok THEN [hjob EXCEPT ![x] = o.job] ELSE hjob
        /\ hpc' = [hpc EXCEPT ![x] = IF ok THEN "ok" ELSE "err"]
    /\ UNCHANGED <<up, cpc, registry, hadd, apc, ajob, submitted, ndisc>>
    /\ UNCHANGED <<jobVars, boardVars, cut, cliVars, auxVars>>

\* main.rs:193-197: remove_user is completed at once
RunnerRemoveUser(x) ==
    /\ hpc[x] = "start"
    /\ hjob[x].instr = "remove_user"
    /\ LET r == Completed(hjob[x], "User removed", 0) IN
        /\ hjob' = [hjob EXCEPT ![x] = r.job]
        /\ hpc' = [hpc EXCEPT ![x] = IF r.ok THEN "ok" ELSE "err"]
    /\ UNCHANGED <<netVars, hadd, hres, apc, ajob, submitted, ndisc>>
    /\ UNCHANGED <<jobVars, boardVars, cut, cliVars, auxVars>>

\* the runtime, when the runner returned: Ok(job) is sent to the sender
\* as an update; Err makes the received job an Error job, sent likewise
HandlerReturn(x) ==
    /\ hpc[x] \in {"ok", "err"}
    /\ LET job == IF hpc[x] = "ok" THEN hjob[x]
                  ELSE Errored(hjob[x], "Error running job", 0).job
           c == CommandSend(chan, board, hres, "I", "P", UpdateMsg(job)) IN
        /\ chan' = c.chan
        /\ board' = c.board
        /\ hres' = c.hres
        /\ hjob' = [hjob EXCEPT ![x] = job]
    /\ hpc' = [hpc EXCEPT ![x] = "replied"]
    /\ UNCHANGED <<up, cpc, registry, hadd, apc, ajob, submitted, ndisc>>
    /\ UNCHANGED <<jobVars, boardVars, cut, cliVars, auxVars>>

(***************************************************************************)
(* The Account handler, freeipa_runner (freeipa/src/main.rs:83-96), and    *)
(* the runtime's reply to the sender.                                      *)
(***************************************************************************)
\* freeipa main.rs:93: envelope.job().execute()
AccountExecute(y) ==
    /\ apc[y] = "running"
    /\ LET r == Execute(ajob[y], 0)
           job == IF r.ok THEN r.job ELSE Errored(ajob[y], "Error running job", 0).job
           c == CommandSend(chan, board, hres, "A", "I", UpdateMsg(job)) IN
        /\ chan' = c.chan
        /\ board' = c.board
        /\ hres' = c.hres
        /\ ajob' = [ajob EXCEPT ![y] = job]
    /\ apc' = [apc EXCEPT ![y] = "done"]
    /\ UNCHANGED <<up, cpc, registry, hpc, hjob, hadd, submitted, ndisc>>
    /\ UNCHANGED <<jobVars, boardVars, cut, cliVars, auxVars>>

\* freeipa main.rs:87-89: the FreeIPA client fails, the runner returns Err
AccountError(y) ==
    /\ apc[y] = "running"
    /\ LET job == Errored(ajob[y], "FreeIPA error", 0).job
           c == CommandSend(chan, board, hres, "A", "I", UpdateMsg(job)) IN
        /\ chan' = c.chan
        /\ board' = c.board
        /\ hres' = c.hres
        /\ ajob' = [ajob EXCEPT ![y] = job]
    /\ apc' = [apc EXCEPT ![y] = "done"]
    /\ UNCHANGED <<up, cpc, registry, hpc, hjob, hadd, submitted, ndisc>>
    /\ UNCHANGED <<jobVars, boardVars, cut, cliVars, auxVars>>

Next ==
    \/ \E l \in Links : Connect(l)
    \/ \E l \in Links : Disconnect(l)
    \/ \E pr \in Pairs : CtlRegister(pr[1], pr[2])
    \/ \E pr \in Pairs : CtlSyncBoard(pr[1], pr[2])
    \/ \E pr \in Pairs : CtlSendQueued(pr[1], pr[2])
    \/ \E pr \in Pairs : RecvRegister(pr[1], pr[2])
    \/ \E pr \in Pairs : RecvSync(pr[1], pr[2])
    \/ \E pr \in Pairs : RecvUpdate(pr[1], pr[2])
    \/ RecvPutInstance
    \/ RecvPutAccount
    \/ \E instr \in Instructions : Submit(instr)
    \/ \E x \in PortalIds : RunnerNoAccount(x)
    \/ \E x \in PortalIds : RunnerAddUser(x)
    \/ \E x \in PortalIds : RunnerPut(x)
    \/ \E x \in PortalIds : RunnerUpdate(x)
    \/ \E x \in PortalIds : RunnerWaitFor(x)
    \/ \E x \in PortalIds : RunnerRemoveUser(x)
    \/ \E x \in PortalIds : HandlerReturn(x)
    \/ \E y \in AddIds : AccountExecute(y)
    \/ \E y \in AddIds : AccountError(y)

(***************************************************************************)
(* Specifications.                                                         *)
(***************************************************************************)
JobSpecInit == JobInit /\ BoardIdle /\ SysInit

SpecJob == JobSpecInit /\ [][JobNext]_vars

(***************************************************************************)
(* SpecMethods: one job, created by Job::new, driven through the methods   *)
(* job.rs defines for it: completed, errored and execute.                  *)
(***************************************************************************)
MethodsNext ==
    \/ JobTick
    \/ \E r \in Messages : JobCompleted(r)
    \/ \E m \in Messages : JobErrored(m)
    \/ JobExecute

MethodsSpecInit == JobInit /\ BoardIdle /\ SysInit

SpecMethods == MethodsSpecInit /\ [][MethodsNext]_vars

BoardSpecInit == JobIdle /\ BoardIdle /\ SysInit

SpecBoard == BoardSpecInit /\ [][BoardNext]_vars

Init == JobIdle /\ BoardIdle /\ SysInit

Spec == Init /\ [][Next]_vars

(***************************************************************************)
(* SpecLink: the Portal and the Instance alone, the Portal submitting      *)
(* MaxQueued jobs over a connection that is closed and re-established.     *)
(* No Account connects, so an add_user job ends with NoAccount.            *)
(***************************************************************************)
QueueIds == 1 .. MaxQueued

LinkPairs == PairsOf("PI")

LinkInit ==
    /\ up = [l \in Links |-> l = "PI"]
    /\ registry = [a \in Agents |-> CASE a = "P" -> {"I"} [] a = "I" -> {"P"} [] OTHER -> {}]
    /\ chan = [pr \in Pairs |-> << >>]
    /\ board = [pr \in Pairs |-> EmptyBoard]
    /\ cpc = [pr \in Pairs |-> "idle"]
    /\ hpc = [x \in QueueIds |-> "none"]
    /\ hjob = [x \in QueueIds |-> NoJob]
    /\ hadd = [x \in QueueIds |-> NoJob]
    /\ hres = [x \in QueueIds |-> NoJob]
    /\ apc = [y \in AddIds |-> "none"]
    /\ ajob = [y \in AddIds |-> NoJob]
    /\ submitted = 0
    /\ ndisc = 0
    /\ cut = {}
    /\ ClientIdle
    /\ AuxIdle("")

LinkSubmit(instr) == SubmitJob(instr, MaxQueued)

LinkConnect == Connect("PI")

LinkDisconnect == Disconnect("PI")

LinkNext ==
    \/ LinkConnect
    \/ LinkDisconnect
    \/ \E pr \in LinkPairs : CtlRegister(pr[1], pr[2])
    \/ \E pr \in LinkPairs : CtlSyncBoard(pr[1], pr[2])
    \/ \E pr \in LinkPairs : CtlSendQueued(pr[1], pr[2])
    \/ \E pr \in LinkPairs : RecvRegister(pr[1], pr[2])
    \/ \E pr \in LinkPairs : RecvSync(pr[1], pr[2])
    \/ \E pr \in LinkPairs : RecvUpdate(pr[1], pr[2])
    \/ RecvPutInstance
    \/ \E instr \in Instructions : LinkSubmit(instr)
    \/ \E x \in QueueIds : RunnerNoAccount(x)
    \/ \E x \in QueueIds : RunnerRemoveUser(x)
    \/ \E x \in QueueIds : HandlerReturn(x)

LinkSpecInit == JobIdle /\ BoardIdle /\ LinkInit

SpecLink == LinkSpecInit /\ [][LinkNext]_vars

(***************************************************************************)
(* SpecRoute: as Spec without closed connections; the Portal addresses its *)
(* job to the Instance or, through the Instance, to the Account.           *)
(***************************************************************************)
Destinations == {<<"P", "I">>, <<"P", "I", "A">>}

RouteIds == PortalIds \cup AddIds

RouteInit ==
    /\ up = [l \in Links |-> l = "PI"]
    /\ registry = [a \in Agents |-> CASE a = "P" -> {"I"} [] a = "I" -> {"P"} [] OTHER -> {}]
    /\ chan = [pr \in Pairs |-> << >>]
    /\ board = [pr \in Pairs |-> EmptyBoard]
    /\ cpc = [pr \in Pairs |-> "idle"]
    /\ hpc = [x \in PortalIds |-> "none"]
    /\ hjob = [x \in PortalIds |-> NoJob]
    /\ hadd = [x \in PortalIds |-> NoJob]
    /\ hres = [x \in PortalIds |-> NoJob]
    /\ apc = [y \in RouteIds |-> "none"]
    /\ ajob = [y \in RouteIds |-> NoJob]
    /\ submitted = 0
    /\ ndisc = 0
    /\ cut = {}
    /\ ClientIdle
    /\ AuxIdle("")

RouteSubmit(dest, instr) == SubmitTo(dest, instr, MaxJobs)

RouteNext ==
    \/ \E l \in Links : Connect(l)
    \/ \E pr \in Pairs : CtlRegister(pr[1], pr[2])
    \/ \E pr \in Pairs : CtlSyncBoard(pr[1], pr[2])
    \/ \E pr \in Pairs : CtlSendQueued(pr[1], pr[2])
    \/ \E pr \in Pairs : RecvRegister(pr[1], pr[2])
    \/ \E pr \in Pairs : RecvSync(pr[1], pr[2])
    \/ \E pr \in Pairs : RecvUpdate(pr[1], pr[2])
    \/ RecvPutInstance
    \/ RecvPutAccount
    \/ \E dest \in Destinations, instr \in Instructions : RouteSubmit(dest, instr)
    \/ \E x \in PortalIds : RunnerNoAccount(x)
    \/ \E x \in PortalIds : RunnerAddUser(x)
    \/ \E x \in PortalIds : RunnerPut(x)
    \/ \E x \in PortalIds : RunnerUpdate(x)
    \/ \E x \in PortalIds : RunnerWaitFor(x)
    \/ \E x \in PortalIds : RunnerRemoveUser(x)
    \/ \E x \in PortalIds : HandlerReturn(x)
    \/ \E y \in RouteIds : AccountExecute(y)
    \/ \E y \in RouteIds : AccountError(y)

RouteSpecInit == JobIdle /\ BoardIdle /\ RouteInit

SpecRoute == RouteSpecInit /\ [][RouteNext]_vars

(***************************************************************************)
(* SpecCut: as Spec, the connection between the Instance and the Account   *)
(* being the one that is closed; cut holds the jobs whose handler was      *)
(* running for the peer when it closed.                                    *)
(***************************************************************************)
CutNext ==
    \/ \E l \in Links : Connect(l)
    \/ DisconnectCut("IA")
    \/ \E pr \in Pairs : CtlRegister(pr[1], pr[2])
    \/ \E pr \in Pairs : CtlSyncBoard(pr[1], pr[2])
    \/ \E pr \in Pairs : CtlSendQueued(pr[1], pr[2])
    \/ \E pr \in Pairs : RecvRegister(pr[1], pr[2])
    \/ \E pr \in Pairs : RecvSync(pr[1], pr[2])
    \/ \E pr \in Pairs : RecvUpdate(pr[1], pr[2])
    \/ RecvPutInstance
    \/ RecvPutAccount
    \/ \E instr \in Instructions : Submit(instr)
    \/ \E x \in PortalIds : RunnerNoAccount(x)
    \/ \E x \in PortalIds : RunnerAddUser(x)
    \/ \E x \in PortalIds : RunnerPut(x)
    \/ \E x \in PortalIds : RunnerUpdate(x)
    \/ \E x \in PortalIds : RunnerWaitFor(x)
    \/ \E x \in PortalIds : RunnerRemoveUser(x)
    \/ \E x \in PortalIds : HandlerReturn(x)
    \/ \E y \in AddIds : AccountExecute(y)
    \/ \E y \in AddIds : AccountError(y)

CutSpecInit == JobIdle /\ BoardIdle /\ SysInit

SpecCut == CutSpecInit /\ [][CutNext]_vars

(***************************************************************************)
(* SpecCtl: the Portal and the Instance with the control messages that     *)
(* follow the end of a session (Disconnected) or an error of the transport *)
(* (Error), each processed by process_control_message.                     *)
(***************************************************************************)
\* the session of the Portal and the Instance ends: each of them is told
\* with Disconnected{agent, zone}
EmitDisconnected ==
    /\ Closed("PI")
    /\ ctl' = [pr \in Pairs |->
                 IF pr \in LinkPairs THEN Append(ctl[pr], "Disconnected") ELSE ctl[pr]]
    /\ UNCHANGED <<cret, nerr, cliVars, runVars, confVars, callVars, extVars>>

\* the transport of agent a reports an error about peer p: Error{error}
EmitError(a, p) ==
    /\ nerr < MaxErrors
    /\ nerr' = nerr + 1
    /\ ctl' = [ctl EXCEPT ![<<a, p>>] = Append(@, "Error")]
    /\ UNCHANGED cret
    /\ UNCHANGED <<netVars, handlerVars, submitted, ndisc, cut, cliVars, runVars, confVars, callVars, extVars>>
    /\ UNCHANGED <<jobVars, boardVars>>

ProcessDisconnectedDropsBoard(a, p) ==
    /\ ctl[<<a, p>>] # << >>
    /\ Head(ctl[<<a, p>>]) = "Disconnected"
    /\ ctl' = [ctl EXCEPT ![<<a, p>>] = Tail(@)]
    /\ cret' = "Ok"
    /\ board' = [board EXCEPT ![<<a, p>>] = EmptyBoard]
    /\ UNCHANGED nerr
    /\ UNCHANGED <<up, chan, cpc, registry, handlerVars, submitted, ndisc, cut, cliVars, runVars, confVars, callVars, extVars>>
    /\ UNCHANGED <<jobVars, boardVars>>

\* control_message.rs:30-33, 39: Disconnected is logged, Ok(()) returned
ProcessDisconnected(a, p) ==
    /\ ctl[<<a, p>>] # << >>
    /\ Head(ctl[<<a, p>>]) = "Disconnected"
    /\ ctl' = [ctl EXCEPT ![<<a, p>>] = Tail(@)]
    /\ cret' = "Ok"
    /\ UNCHANGED nerr
    /\ UNCHANGED <<netVars, handlerVars, submitted, ndisc, cut, cliVars, runVars, confVars, callVars, extVars>>
    /\ UNCHANGED <<jobVars, boardVars>>

\* control_message.rs:34-36, 39: Error is logged, Ok(()) returned
ProcessError(a, p) ==
    /\ ctl[<<a, p>>] # << >>
    /\ Head(ctl[<<a, p>>]) = "Error"
    /\ ctl' = [ctl EXCEPT ![<<a, p>>] = Tail(@)]
    /\ cret' = "Ok"
    /\ UNCHANGED nerr
    /\ UNCHANGED <<netVars, handlerVars, submitted, ndisc, cut, cliVars, runVars, confVars, callVars, extVars>>
    /\ UNCHANGED <<jobVars, boardVars>>

CtlNext ==
    \/ LinkConnect
    \/ EmitDisconnected
    \/ \E pr \in LinkPairs : EmitError(pr[1], pr[2])
    \/ \E pr \in LinkPairs : ProcessDisconnected(pr[1], pr[2])
    \/ \E pr \in LinkPairs : ProcessError(pr[1], pr[2])
    \/ \E pr \in LinkPairs : CtlRegister(pr[1], pr[2])
    \/ \E pr \in LinkPairs : CtlSyncBoard(pr[1], pr[2])
    \/ \E pr \in LinkPairs : CtlSendQueued(pr[1], pr[2])
    \/ \E pr \in LinkPairs : RecvRegister(pr[1], pr[2])
    \/ \E pr \in LinkPairs : RecvSync(pr[1], pr[2])
    \/ \E pr \in LinkPairs : RecvUpdate(pr[1], pr[2])
    \/ RecvPutInstance
    \/ \E instr \in Instructions : Submit(instr)
    \/ \E x \in PortalIds : RunnerNoAccount(x)
    \/ \E x \in PortalIds : RunnerRemoveUser(x)
    \/ \E x \in PortalIds : HandlerReturn(x)

SpecCtl == Init /\ [][CtlNext]_vars

(***************************************************************************)
(* SpecStart: the Instance starts with custom::run (custom.rs:12-25) while *)
(* the Portal is up and submits its job.                                   *)
(***************************************************************************)
RunOrderTransportFirst == <<"details", "transport", "handler">>

\* custom.rs:18-22: set_service_details, set_handler, paddington::run
RunOrder == <<"details", "handler", "transport">>

\* the place that follows place p; after the last one run awaits the
\* transport
PlaceAfter(p) ==
    LET i == CHOOSE k \in 1 .. Len(RunOrder) : RunOrder[k] = p
    IN IF i < Len(RunOrder) THEN RunOrder[i + 1] ELSE "wait"

ServiceNamesOfRun == {"", "I"}

StartInit ==
    /\ up = [l \in Links |-> FALSE]
    /\ registry = [a \in Agents |-> {}]
    /\ RestInit
    /\ ClientIdle
    /\ AuxIdle("run")
    /\ rpc = "name"
    /\ rret = "none"
    /\ rname \in ServiceNamesOfRun
    /\ installed = << >>

\* what a step of custom::run leaves alone
RunFrame ==
    /\ UNCHANGED <<netVars, handlerVars, submitted, ndisc, cut, cliVars, ctlVars, confVars, callVars, extVars>>
    /\ UNCHANGED <<jobVars, boardVars>>

\* custom.rs:13-15: an empty service name is Misconfigured
RunName ==
    /\ rpc = "name"
    /\ IF rname = ""
       THEN rret' = "Misconfigured" /\ rpc' = "returned"
       ELSE rpc' = RunOrder[1] /\ UNCHANGED rret
    /\ UNCHANGED <<rname, installed>>
    /\ RunFrame

\* custom.rs:18: set_service_details(name, agent, Some(runner)).await?
SetServiceDetails ==
    /\ rpc = "details"
    /\ \E ok \in BOOLEAN :
          IF ok
          THEN /\ installed' = Append(installed, "details")
               /\ rpc' = PlaceAfter("details")
               /\ UNCHANGED rret
          ELSE /\ rret' = "Err"
               /\ rpc' = "returned"
               /\ UNCHANGED installed
    /\ UNCHANGED rname
    /\ RunFrame

\* custom.rs:21: paddington::set_handler(process_message).await?
SetHandler ==
    /\ rpc = "handler"
    /\ \E ok \in BOOLEAN :
          IF ok
          THEN /\ installed' = Append(installed, "handler")
               /\ rpc' = PlaceAfter("handler")
               /\ UNCHANGED rret
          ELSE /\ rret' = "Err"
               /\ rpc' = "returned"
               /\ UNCHANGED installed
    /\ UNCHANGED rname
    /\ RunFrame

\* custom.rs:22: paddington::run(config.service()) starts the transport
PaddingtonRun ==
    /\ rpc = "transport"
    /\ installed' = Append(installed, "transport")
    /\ rpc' = PlaceAfter("transport")
    /\ UNCHANGED <<rret, rname>>
    /\ RunFrame

TransportRuns ==
    /\ \E i \in 1 .. Len(installed) : installed[i] = "transport"
    /\ \A i \in 1 .. Len(installed) : installed[i] # "stopped"

\* custom.rs:22-24: paddington::run returns, with an error (the ?) or
\* with Ok, and so does run
PaddingtonReturns ==
    /\ rpc = "wait"
    /\ ~up["PI"]
    /\ installed' = Append(installed, "stopped")
    /\ rpc' = "returned"
    /\ \E res \in {"Ok", "Err"} : rret' = res
    /\ UNCHANGED rname
    /\ RunFrame

\* the running transport connects to the Portal
StartConnect ==
    /\ TransportRuns
    /\ Opened("PI")
    /\ UNCHANGED <<cliVars, ctlVars, runVars, confVars, callVars, extVars>>

StartNext ==
    \/ RunName
    \/ SetServiceDetails
    \/ SetHandler
    \/ PaddingtonRun
    \/ PaddingtonReturns
    \/ StartConnect
    \/ \E pr \in LinkPairs : CtlRegister(pr[1], pr[2])
    \/ \E pr \in LinkPairs : CtlSyncBoard(pr[1], pr[2])
    \/ \E pr \in LinkPairs : CtlSendQueued(pr[1], pr[2])
    \/ \E pr \in LinkPairs : RecvRegister(pr[1], pr[2])
    \/ \E pr \in LinkPairs : RecvSync(pr[1], pr[2])
    \/ \E pr \in LinkPairs : RecvUpdate(pr[1], pr[2])
    \/ RecvPutInstance
    \/ \E instr \in Instructions : Submit(instr)
    \/ \E x \in PortalIds : RunnerNoAccount(x)
    \/ \E x \in PortalIds : RunnerRemoveUser(x)
    \/ \E x \in PortalIds : HandlerReturn(x)

StartSpecInit == JobIdle /\ BoardIdle /\ StartInit

SpecStart == StartSpecInit /\ [][StartNext]_vars

(***************************************************************************)
(* SpecInvite: two services introduce each other: add_client issues an     *)
(* invitation, which is carried to the other service and loaded there      *)
(* with add_server.                                                        *)
(***************************************************************************)
\* what a call on a ServiceConfig leaves alone
ConfFrame ==
    /\ UNCHANGED <<netVars, handlerVars, submitted, ndisc, cut, cliVars, ctlVars, runVars, callVars, extVars>>
    /\ UNCHANGED <<jobVars, boardVars>>

\* a.add_client(name, ip): the keys are the next two Key::generate() gives
AddClient(a, name, ip) ==
    /\ nkey < 2 * MaxKeyPairs
    /\ LET r == ServiceAddClient(svc[a], name, ip, nkey + 1, nkey + 2) IN
        /\ svc' = [svc EXCEPT ![a] = r.config]
        /\ nkey' = IF r.ok THEN nkey + 2 ELSE nkey
        /\ invites' = IF r.ok THEN invites \cup {[invite |-> r.invite, for |-> name]} ELSE invites
        /\ confret' = [op |-> "add_client", by |-> a, for |-> name, ok |-> r.ok,
                       err |-> r.err, invite |-> r.invite]
    /\ ConfFrame

\* b.add_server(invite) with an invitation that was issued
AddServer(b, i) ==
    /\ i \in invites
    /\ LET r == ServiceAddServer(svc[b], i.invite) IN
        /\ svc' = [svc EXCEPT ![b] = r.config]
        /\ confret' = [op |-> "add_server", by |-> b, for |-> i.for, ok |-> r.ok,
                       err |-> r.err, invite |-> i.invite]
    /\ UNCHANGED <<invites, nkey>>
    /\ ConfFrame

InviteNext ==
    \/ \E a \in Services, name \in Services \cup {""}, ip \in IpTexts : AddClient(a, name, ip)
    \/ \E b \in Services, i \in invites : AddServer(b, i)

InviteSpecInit == JobIdle /\ BoardIdle /\ SysInit

SpecInvite == InviteSpecInit /\ [][InviteNext]_vars

(***************************************************************************)
(* SpecConfig: the clients and servers of two services are added and       *)
(* removed in any order; an invitation loaded for add_server is one that   *)
(* was issued or one whose URL does not parse.                             *)
(***************************************************************************)
NoUrl == [scheme |-> "", host |-> "", port |-> 0, path |-> ""]

\* invitations read from a file nobody issued
ForeignInvites == {[invite |-> InviteNew(s, NoUrl, 0, 0), for |-> s] : s \in Services}

\* b.add_server(invite) with an invitation loaded from a file
LoadServer(b, i) ==
    /\ LET r == ServiceAddServer(svc[b], i.invite) IN
        /\ svc' = [svc EXCEPT ![b] = r.config]
        /\ confret' = [op |-> "add_server", by |-> b, for |-> i.invite.name, ok |-> r.ok,
                       err |-> r.err, invite |-> i.invite]
    /\ UNCHANGED <<invites, nkey>>
    /\ ConfFrame

\* a.remove_client(name)
RemoveClient(a, name) ==
    /\ LET r == ServiceRemoveClient(svc[a], name) IN
        /\ svc' = [svc EXCEPT ![a] = r.config]
        /\ confret' = [NoConfRet EXCEPT !.op = "remove_client", !.by = a, !.for = name,
                                        !.ok = r.ok, !.err = r.err]
    /\ UNCHANGED <<invites, nkey>>
    /\ ConfFrame

\* a.remove_server(name)
RemoveServer(a, name) ==
    /\ LET r == ServiceRemoveServer(svc[a], name) IN
        /\ svc' = [svc EXCEPT ![a] = r.config]
        /\ confret' = [NoConfRet EXCEPT !.op = "remove_server", !.by = a, !.for = name,
                                        !.ok = r.ok, !.err = r.err]
    /\ UNCHANGED <<invites, nkey>>
    /\ ConfFrame

\* an address and a text that is neither an address nor a range
ConfigIps == {<<10, 0, 0, 1>>, <<10, 0, 0>>}

ConfigNext ==
    \/ \E a \in Services, name \in Services \cup {""}, ip \in ConfigIps : AddClient(a, name, ip)
    \/ \E b \in Services, i \in invites \cup ForeignInvites : LoadServer(b, i)
    \/ \E a \in Services, name \in Services \cup {""} : RemoveClient(a, name)
    \/ \E a \in Services, name \in Services \cup {""} : RemoveServer(a, name)

ConfigSpecInit == JobIdle /\ BoardIdle /\ SysInit

SpecConfig == ConfigSpecInit /\ [][ConfigNext]_vars

(***************************************************************************)
(* The specifications of functions: the value a function is called on is   *)
(* drawn at the start, the actions apply the functions to it.              *)
(***************************************************************************)
\* the start of a specification that calls functions on one of inputs
CallInit(inputs) ==
    /\ up = [l \in Links |-> FALSE]
    /\ registry = [a \in Agents |-> {}]
    /\ RestInit
    /\ ClientIdle
    /\ AuxIdle("call")
    /\ call \in inputs
    /\ result = << >>

\* what a call of a function leaves alone
CallFrame ==
    /\ UNCHANGED <<netVars, handlerVars, submitted, ndisc, cut, cliVars, ctlVars, runVars, confVars, extVars>>
    /\ UNCHANGED <<jobVars, boardVars>>

\* the function op returned value
Returned(op, value) ==
    /\ result' = Append(result, [op |-> op, value |-> value])
    /\ UNCHANGED call
    /\ CallFrame

\* the sequences of at least lo and at most hi elements of S
SeqsOf(S, lo, hi) == UNION {[1 .. n -> S] : n \in lo .. hi}

(***************************************************************************)
(* SpecGrammar: identifiers and instructions are parsed, printed and       *)
(* parsed again.                                                           *)
(***************************************************************************)
\* the parts of identifier texts: no part has a dot
IdentFields ==
    {<< >>, <<"u">>, <<" ">>, <<"\t">>, <<" ", "u">>, <<"u", "\t">>, <<"u", " ", "p">>}

\* the words of instruction texts: no word has a space
FirstWords ==
    {<< >>, <<"u">>, <<"invalid">>, <<"add_user">>, <<"remove_user">>, <<"add_local_user">>,
     <<"remove_local_user">>, <<"update_homedir">>}
ArgWords ==
    {<< >>, <<"\t">>, <<"h">>,
     <<"u", ".", "p", ".", "q">>, <<"u", ".", ".", "q">>, <<"u", ".", "p">>,
     <<"u", ".", "p", ".", "q", ":", "l", ":", "j">>,
     <<"u", ".", "p", ".", "q", ":", "l">>,
     <<"u", ".", "p", ".", "q", ":", ":", "j">>}

\* the texts users are parsed from, the local names of mappings and the
\* home directories that instructions are built of
UserTexts ==
    {<<"u", ".", "p", ".", "q">>, <<" ", "u", ".", "p", ".", "q">>,
     <<"u", " ", "u", ".", "p", ".", "q">>, <<"u", ":", ".", "p", ".", "q">>}
LocalNames == {<<"l">>, <<"l", " ", "l">>, <<"l", ":">>}
HomedirChars == {"h", " ", "\t"}
Homedirs == SeqsOf(HomedirChars, 1, MaxHomedir)

\* the users UserIdentifier::parse returns and the mappings
\* UserMapping::new returns
ParsedUsers == {UserIdentifierParse(t).value : t \in {x \in UserTexts : UserIdentifierParse(x).ok}}
NewMappings ==
    {UserMappingNew(u, l, <<"j">>).value : u \in ParsedUsers,
        l \in {x \in LocalNames : UserMappingNew(UserIdentifierDefault, x, <<"j">>).ok}}

\* the instructions other than Invalid()
ValidInstructions ==
    {AddUser(u) : u \in ParsedUsers} \cup {RemoveUser(u) : u \in ParsedUsers}
        \cup {AddLocalUser(x) : x \in NewMappings} \cup {RemoveLocalUser(x) : x \in NewMappings}
        \cup {UpdateHomeDir(u, h) : u \in ParsedUsers, h \in Homedirs}

GrammarCalls ==
    {[kind |-> "identifier", fields |-> fs, text |-> JoinWith(fs, ".")] :
        fs \in SeqsOf(IdentFields, 1, MaxParts)}
    \cup {[kind |-> "text", words |-> <<w>> \o ws, text |-> JoinWith(<<w>> \o ws, " ")] :
            w \in FirstWords, ws \in SeqsOf(ArgWords, 0, MaxArgs)}
    \cup {[kind |-> "instruction", instruction |-> i] : i \in ValidInstructions}

\* UserIdentifier::parse(text)
ParseIdentifier ==
    /\ call.kind = "identifier"
    /\ result = << >>
    /\ Returned("parse", UserIdentifierParse(call.text))

\* to_string() of the identifier parse returned
RenderIdentifier ==
    /\ call.kind = "identifier"
    /\ Len(result) = 1
    /\ result[1].value.ok
    /\ Returned("to_string", UserIdentifierToString(result[1].value.value))

\* Instruction::new(text)
NewInstruction ==
    /\ call.kind = "text"
    /\ result = << >>
    /\ Returned("new", InstructionNew(call.text))

\* is_valid() of the instruction new returned
IsValidInstruction ==
    /\ call.kind = "text"
    /\ Len(result) = 1
    /\ Returned("is_valid", InstructionIsValid(result[1].value))

\* instruction.to_string()
RenderInstruction ==
    /\ call.kind = "instruction"
    /\ result = << >>
    /\ Returned("to_string", InstructionToString(call.instruction))

\* Instruction::new of the text to_string returned
ReparseInstruction ==
    /\ call.kind = "instruction"
    /\ Len(result) = 1
    /\ result[1].op = "to_string"
    /\ Returned("new", InstructionNew(result[1].value))

\* serde_json::to_string(&instruction)
SerializeInstruction ==
    /\ call.kind = "instruction"
    /\ result = << >>
    /\ Returned("serialize", InstructionSerialize(call.instruction))

\* serde_json::from_str of the JSON
DeserializeInstruction ==
    /\ call.kind = "instruction"
    /\ Len(result) = 1
    /\ result[1].op = "serialize"
    /\ Returned("deserialize", InstructionDeserialize(result[1].value))

GrammarNext ==
    \/ ParseIdentifier
    \/ RenderIdentifier
    \/ NewInstruction
    \/ IsValidInstruction
    \/ RenderInstruction
    \/ ReparseInstruction
    \/ SerializeInstruction
    \/ DeserializeInstruction

GrammarSpecInit == JobIdle /\ BoardIdle /\ CallInit(GrammarCalls)

SpecGrammar == GrammarSpecInit /\ [][GrammarNext]_vars

(***************************************************************************)
(* SpecParse: commands are parsed to jobs by Job::parse and by the         *)
(* bridge's run.                                                           *)
(***************************************************************************)
\* the tokens of commands: none is empty or has whitespace
CommandTokens ==
    {<<"P", ".", "I">>, <<"P", ".", ".", "I">>,
     <<"add_user">>, <<"update_homedir">>,
     <<"u", ".", "p", ".", "q">>, <<"u", ".", ".", "q">>, <<"h">>}

\* the whitespace between tokens and before the first
Gaps == {<<" ">>, <<"\t", " ">>}
Leads == {<< >>, <<" ">>}

\* the text of tokens with gap between them
RECURSIVE Spaced(_, _)
Spaced(tokens, gap) ==
    IF tokens = << >> THEN << >>
    ELSE IF Len(tokens) = 1 THEN tokens[1]
    ELSE tokens[1] \o gap \o Spaced(Tail(tokens), gap)

ParseCalls ==
    {[kind |-> "command", tokens |-> ts, text |-> lead \o Spaced(ts, gap)] :
        ts \in SeqsOf(CommandTokens, 0, MaxTokens), gap \in Gaps, lead \in Leads}

\* Job::parse(command)
ParseJob ==
    /\ call.kind = "command"
    /\ result = << >>
    /\ Returned("parse", JobParse(call.text, 1, now))

\* bridge run(command)
RunCommand ==
    /\ call.kind = "command"
    /\ result = << >>
    /\ Returned("run", BridgeRun(call.text, 1, now))

ParseNext ==
    \/ ParseJob
    \/ RunCommand

ParseSpecInit == JobIdle /\ BoardIdle /\ CallInit(ParseCalls)

SpecParse == ParseSpecInit /\ [][ParseNext]_vars

(***************************************************************************)
(* SpecCrypto: a value is encrypted with a generated key; the sealed data, *)
(* as it is or altered, is decrypted with that key or another.             *)
(***************************************************************************)
PlainChars == {"a", "\"", "\\", "\t"}
PlainValues == SeqsOf(PlainChars, 0, MaxPlain)
GeneratedKeys == {KeyGenerate(n) : n \in 1 .. MaxKeys}
\* the generated keys and a key whose bytes are not of the length of a key
AllKeys == GeneratedKeys \cup {[data |-> 0]}
Nonces == {1, 2}
\* the version bytes sealed data is given
SealedVersions == {0, 1, 2, 255}

\* what one element of sealed data can be changed to without the key: the
\* nonce to another, a symbol to the one of another character, the tag to
\* bytes that are no tag
Changed(e) ==
    IF "nonce" \in DOMAIN e THEN {[nonce |-> n] : n \in Nonces \ {e.nonce}}
    ELSE IF "b" \in DOMAIN e THEN {[e EXCEPT !.b = c] : c \in (PlainChars \cup {"t"}) \ {e.b}}
    ELSE {[tag |-> << >>]}

\* sealed data altered: an element changed, removed or repeated
Alterations(d) ==
    ({[d EXCEPT ![i] = e] : <<i, e>> \in UNION {{<<j, x>> : x \in Changed(d[j])} : j \in 1 .. Len(d)}}
        \cup {SubSeq(d, 1, i - 1) \o SubSeq(d, i + 1, Len(d)) : i \in 1 .. Len(d)}
        \cup {SubSeq(d, 1, i) \o SubSeq(d, i, Len(d)) : i \in 1 .. Len(d)}
        \cup {<< >>}) \ {d}

CryptoCalls == {[kind |-> "value", x |-> x, key |-> k] : x \in PlainValues, k \in GeneratedKeys}

\* key.encrypt(x)
Encrypt ==
    /\ call.kind = "value"
    /\ result = << >>
    /\ \E n \in Nonces : Returned("encrypt", KeyEncrypt(call.key, call.x, n))

\* k.decrypt of sealed data: what was encrypted or an alteration of it,
\* with any version byte
Decrypt ==
    /\ call.kind = "value"
    /\ Len(result) = 1
    /\ result[1].value.ok
    /\ \E k \in AllKeys, v \in SealedVersions,
           d \in {result[1].value.sealed.data} \cup Alterations(result[1].value.sealed.data) :
          LET sealed == [data |-> d, version |-> v] IN
          Returned("decrypt", [key |-> k, sealed |-> sealed, out |-> KeyDecrypt(k, sealed)])

CryptoNext ==
    \/ Encrypt
    \/ Decrypt

CryptoSpecInit == JobIdle /\ BoardIdle /\ CallInit(CryptoCalls)

SpecCrypto == CryptoSpecInit /\ [][CryptoNext]_vars

(***************************************************************************)
(* SpecCache: tasks of the slurm agent store daily usage reports with      *)
(* set_report.  A call reads today's date, makes its checks, waits for the *)
(* write lock of the cache, evicts while the project holds ReportLimit     *)
(* reports or more, inserts and returns.  Whatever Date::today() gives is   *)
(* an input of the call.                                                   *)
(***************************************************************************)
Projects == {"p", "q"}

\* the dates: the day before the first cached one up to the day after the
\* last cached one
LastDate == ReportLimit + 2
FirstDate == LastDate - ReportLimit - 1
MidDate == (ReportLimit \div 2) + 2

\* the dates a report is stored for and the dates Date::today() gives
ReportDates == {FirstDate, FirstDate + 1, MidDate, LastDate - 1, LastDate}
Todays == {FirstDate, MidDate, LastDate}

\* the reports stored: complete ones and an incomplete one
NewReports ==
    {[complete |-> TRUE, value |-> v] : v \in 1 .. MaxValue}
        \cup {[complete |-> FALSE, value |-> 1]}

\* the reports of the days lo .. hi as cached by earlier calls
Cached(lo, hi) == [d \in lo .. hi |-> [complete |-> TRUE, value |-> 0]]

\* what the cache holds for the projects when the calls followed start:
\* q has one report, p has none, one, one less than the limit or the limit
CachedReports ==
    {MapInsert(EmptyMap, "q", Cached(MidDate, MidDate))}
      \cup {MapInsert(MapInsert(EmptyMap, "q", Cached(MidDate, MidDate)), "p", Cached(lo, LastDate - 1)) :
              lo \in {LastDate - 1, FirstDate + 2, FirstDate + 1}}

CacheInit(contents) ==
    /\ up = [l \in Links |-> FALSE]
    /\ registry = [a \in Agents |-> {}]
    /\ RestInit
    /\ ClientIdle
    /\ AuxIdle("cache")
    /\ cache \in {[DatabaseDefault EXCEPT !.reports = r] : r \in contents}
    /\ lockh = 0
    /\ ctask = [t \in Tasks |-> NoCacheCall]

CacheFrame ==
    /\ UNCHANGED <<netVars, handlerVars, submitted, ndisc, cut, cliVars, ctlVars, runVars, confVars, callVars, loopVars, lockVars>>
    /\ UNCHANGED <<jobVars, boardVars>>

\* set_report up to CACHE.write(): today is read, the date and the report
\* are checked
SetReportCall(t, project, date, report, today) ==
    /\ ctask[t].pc = "idle"
    /\ ctask' = [ctask EXCEPT ![t] =
            [NoCacheCall EXCEPT !.op = "set_report", !.project = project, !.date = date, !.report = report,
                                !.today = today,
                                !.pc = IF SetReportChecks(date, report, today) = "Ok"
                                       THEN "lock" ELSE "done",
                                !.ret = IF SetReportChecks(date, report, today) = "Ok"
                                        THEN "none" ELSE "Bug"]]
    /\ UNCHANGED <<cache, lockh>>
    /\ CacheFrame

\* CACHE.write().await is granted and the project is looked up
SetReportLock(t) ==
    /\ ctask[t].pc = "lock"
    /\ lockh = 0
    /\ lockh' = t
    /\ ctask' = [ctask EXCEPT ![t].before = cache,
                              ![t].pc = IF ctask[t].project \in DOMAIN cache.reports
                                        THEN "loop" ELSE "insert"]
    /\ UNCHANGED cache
    /\ CacheFrame

\* one turn of the while loop
SetReportEvict(t) ==
    /\ ctask[t].pc = "loop"
    /\ lockh = t
    /\ NeedsEviction(cache.reports[ctask[t].project])
    /\ ctask[t].iters < MaxIters
    /\ cache' = [cache EXCEPT !.reports[ctask[t].project] =
                    EvictOldest(cache.reports[ctask[t].project], ctask[t].today)]
    /\ ctask' = [ctask EXCEPT ![t].iters = ctask[t].iters + 1]
    /\ UNCHANGED lockh
    /\ CacheFrame

\* the loop is over or there was none: the report is inserted, the lock is
\* dropped and Ok(()) is returned
SetReportInsert(t) ==
    /\ lockh = t
    /\ \/ ctask[t].pc = "insert"
       \/ ctask[t].pc = "loop" /\ ~NeedsEviction(cache.reports[ctask[t].project])
    /\ cache' = [cache EXCEPT !.reports =
                    InsertReport(cache.reports, ctask[t].project, ctask[t].date, ctask[t].report)]
    /\ lockh' = 0
    /\ ctask' = [ctask EXCEPT ![t].pc = "done", ![t].ret = "Ok"]
    /\ CacheFrame

CacheNext ==
    \/ \E t \in Tasks, project \in Projects, date \in ReportDates, report \in NewReports, today \in Todays :
          SetReportCall(t, project, date, report, today)
    \/ \E t \in Tasks : SetReportLock(t)
    \/ \E t \in Tasks : SetReportEvict(t)
    \/ \E t \in Tasks : SetReportInsert(t)

CacheSpecInit == JobIdle /\ BoardIdle /\ CacheInit(CachedReports)

SpecCache == CacheSpecInit /\ [][CacheNext]_vars

(***************************************************************************)
(* SpecClear: the slurm agent fills its cache (set_cluster, add_account,   *)
(* add_user, set_default_node) and tasks call clear.  Nobody holds the     *)
(* lock across a suspension point here, so each call is one step.          *)
(***************************************************************************)
Clusters == {"hpc"}
SlurmAccounts == {[name |-> "a"]}
SlurmUsers == {[name |-> "u"]}
SlurmNodeValues == {[cores |-> 1], [cores |-> 2]}

CallSetCluster(cluster) ==
    /\ lockh = 0
    /\ cache' = SetCluster(cache, cluster)
    /\ UNCHANGED <<lockh, ctask>>
    /\ CacheFrame

CallAddAccount(account) ==
    /\ lockh = 0
    /\ cache' = AddAccount(cache, account)
    /\ UNCHANGED <<lockh, ctask>>
    /\ CacheFrame

CallAddUser(user) ==
    /\ lockh = 0
    /\ cache' = CacheAddUser(cache, user)
    /\ UNCHANGED <<lockh, ctask>>
    /\ CacheFrame

CallSetDefaultNode(node) ==
    /\ lockh = 0
    /\ cache' = SetDefaultNode(cache, node)
    /\ UNCHANGED <<lockh, ctask>>
    /\ CacheFrame

CallClear(t) ==
    /\ ctask[t].pc = "idle"
    /\ lockh = 0
    /\ cache' = Clear(cache)
    /\ ctask' = [ctask EXCEPT ![t] =
            [NoCacheCall EXCEPT !.op = "clear", !.before = cache, !.pc = "done", !.ret = "Ok"]]
    /\ UNCHANGED lockh
    /\ CacheFrame

ClearNext ==
    \/ \E cluster \in Clusters : CallSetCluster(cluster)
    \/ \E account \in SlurmAccounts : CallAddAccount(account)
    \/ \E user \in SlurmUsers : CallAddUser(user)
    \/ \E node \in SlurmNodeValues : CallSetDefaultNode(node)
    \/ \E t \in Tasks : CallClear(t)

ClearSpecInit == JobIdle /\ BoardIdle /\ CacheInit(CachedReports)

SpecClear == ClearSpecInit /\ [][ClearNext]_vars

(***************************************************************************)
(* SpecBridge: the agent connected to the Portal runs the bridge: run and  *)
(* status are called whether or not the Portal has registered yet, while   *)
(* the connection opens, registers, synchronises and closes.               *)
(***************************************************************************)
\* the agent that runs the bridge, and the Portal it connects to
Bridge == "I"

\* agent::portal(): the peer registered as the portal, if any
PortalAgent == IF "P" \in registry[Bridge] THEN Some("P") ELSE None

\* the commands run: a valid one, one with an invalid destination, one
\* with an invalid instruction and the empty one
GoodCommands == {Spaced(<<<<"P">>, <<"add_user">>, <<"u", ".", "p", ".", "q">>>>, <<" ">>)}

BadCommands ==
    {Spaced(<<<<"P", ".", ".", "I">>, <<"add_user">>, <<"u", ".", "p", ".", "q">>>>, <<" ">>),
     Spaced(<<<<"P">>, <<"add_user">>, <<"u", ".", ".", "q">>>>, <<" ">>),
     << >>}

BridgeFrame ==
    /\ UNCHANGED <<up, cpc, registry, hpc, hjob, hadd, apc, ajob, ndisc, cut>>
    /\ UNCHANGED <<jobVars, boardVars, cliVars, ctlVars, runVars, confVars, extVars, call>>

\* run(command): the job parsed is put to the portal
RunCall(command) ==
    /\ submitted < MaxQueued
    /\ \E r \in {BridgeRunWith(PortalAgent, command, submitted + 1, 0)} :
        IF IsSome(r.put)
        THEN \E c \in {CommandSend(chan, board, hres, Bridge, "P", PutMsg(r.put[1]))} :
             /\ chan' = c.chan
             /\ board' = c.board
             /\ hres' = c.hres
             /\ submitted' = submitted + 1
             /\ result' = <<[op |-> "run", command |-> command, id |-> 0,
                             ok |-> c.ok, err |-> IF c.ok THEN "" ELSE "Board",
                             job |-> IF c.ok THEN r.job ELSE None]>>
        ELSE /\ UNCHANGED <<chan, board, hres, submitted>>
             /\ result' = <<[op |-> "run", command |-> command, id |-> 0,
                             ok |-> r.ok, err |-> r.err, job |-> r.job]>>
    /\ BridgeFrame

\* status(job)
StatusCall(id) ==
    /\ \E r \in {BridgeStatus(PortalAgent, board[<<Bridge, "P">>], id)} :
        result' = <<[op |-> "status", command |-> << >>, id |-> id,
                     ok |-> r.ok, err |-> r.err, job |-> r.job]>>
    /\ UNCHANGED <<chan, board, hres, submitted>>
    /\ BridgeFrame

BridgeNext ==
    \/ LinkConnect
    \/ LinkDisconnect
    \/ \E pr \in LinkPairs : CtlRegister(pr[1], pr[2])
    \/ \E pr \in LinkPairs : CtlSyncBoard(pr[1], pr[2])
    \/ \E pr \in LinkPairs : CtlSendQueued(pr[1], pr[2])
    \/ \E pr \in LinkPairs : RecvRegister(pr[1], pr[2])
    \/ \E pr \in LinkPairs : RecvSync(pr[1], pr[2])
    \/ \E command \in GoodCommands \cup BadCommands : RunCall(command)
    \/ \E id \in QueueIds : StatusCall(id)

BridgeSpecInit == JobIdle /\ BoardIdle /\ BootInit

SpecBridge == BridgeSpecInit /\ [][BridgeNext]_vars

(***************************************************************************)
(* SpecLoop: eventloop::run is called once with what process_args gives;   *)
(* the tasks it spawned return in any order or not at all.                 *)
(***************************************************************************)
\* the peers of a configuration, named by their numbers
LoopPeers == [n \in 1 .. MaxPeers |-> n]

\* what process_args gives
LoopArgs ==
    {[NoArgs EXCEPT !.kind = "ServiceConfig",
                    !.config = [name |-> name,
                                clients |-> SubSeq(LoopPeers, 1, nc),
                                servers |-> SubSeq(LoopPeers, 1, ns)]] :
        name \in {"", "svc"}, nc \in 0 .. MaxPeers, ns \in 0 .. MaxPeers}
      \cup {[NoArgs EXCEPT !.kind = "Invite", !.saves = s] : s \in BOOLEAN}
      \cup {[NoArgs EXCEPT !.kind = k] : k \in {"Err", "Message", "None"}}

LoopInit ==
    /\ up = [l \in Links |-> FALSE]
    /\ registry = [a \in Agents |-> {}]
    /\ RestInit
    /\ ClientIdle
    /\ AuxIdle("loop")
    /\ epc = "start"
    /\ eargs \in LoopArgs
    /\ etasks = << >>
    /\ ejoined = 0
    /\ eret = "none"

LoopFrame ==
    /\ UNCHANGED <<netVars, handlerVars, submitted, ndisc, cut, cliVars, ctlVars, runVars, confVars, callVars, cacheVars, lockVars>>
    /\ UNCHANGED <<jobVars, boardVars>>

\* run from its call to its first handle.await, or to its return
LoopStart ==
    /\ epc = "start"
    /\ etasks' = RunStart(eargs).tasks
    /\ epc' = IF RunStart(eargs).done THEN "returned" ELSE "join"
    /\ eret' = IF RunStart(eargs).done THEN RunStart(eargs).ret ELSE "none"
    /\ UNCHANGED <<eargs, ejoined>>
    /\ LoopFrame

\* server::run or client::run of task i returns
TaskReturns(i) ==
    /\ i \in 1 .. Len(etasks)
    /\ ~etasks[i].finished
    /\ etasks' = [etasks EXCEPT ![i].finished = TRUE]
    /\ UNCHANGED <<epc, eargs, ejoined, eret>>
    /\ LoopFrame

\* handle.await of the next handle completes; after the last, run
\* returns Ok
LoopJoin ==
    /\ epc = "join"
    /\ etasks[ejoined + 1].finished
    /\ ejoined' = ejoined + 1
    /\ epc' = IF ejoined + 1 = Len(etasks) THEN "returned" ELSE "join"
    /\ eret' = IF ejoined + 1 = Len(etasks) THEN "Ok" ELSE "none"
    /\ UNCHANGED <<eargs, etasks>>
    /\ LoopFrame

LoopNext ==
    \/ LoopStart
    \/ \E i \in 1 .. (MaxPeers + 1) : TaskReturns(i)
    \/ LoopJoin

LoopSpecInit == JobIdle /\ BoardIdle /\ LoopInit

SpecLoop == LoopSpecInit /\ [][LoopNext]_vars

(***************************************************************************)
(* SpecLock: Instance handlers run add_user concurrently while the task    *)
(* that receives from the Account applies replies to the same board.       *)
(* A handler is at                                                         *)
(*   start     before board.write().await of line 120                      *)
(*   adding    in the block 119-130, holding the lock                      *)
(*   put       awaiting Command::put(..).send_to(&account) (133)           *)
(*   update    awaiting Command::update(..).send_to(sender) (138)          *)
(*   towait    before board.write().await of line 143                      *)
(*   taking    in the block 142-145, holding the lock                      *)
(*   waiting   awaiting waiter.result() (149)                              *)
(*   toresult  before board.write().await of line 166                      *)
(*   storing   in the block 165-168, holding the lock                      *)
(*   final     awaiting Command::update(..).send_to(sender) (173)          *)
(*   ok, err   returned                                                    *)
(***************************************************************************)
LockInit ==
    /\ up = [l \in Links |-> FALSE]
    /\ registry = [a \in Agents |-> {}]
    /\ RestInit
    /\ ClientIdle
    /\ AuxIdle("lock")
    /\ blk = 0
    /\ lpc = [h \in Handlers |-> "start"]
    /\ lterm = {}
    /\ lrcv = [pc |-> "idle", for |-> 0]

LockFrame ==
    /\ UNCHANGED <<netVars, handlerVars, submitted, ndisc, cut, cliVars, ctlVars, runVars, confVars, callVars, cacheVars, loopVars>>
    /\ UNCHANGED <<jobVars, boardVars>>

\* board.write().await is granted to handler h (120, 143, 166)
RunnerLock(h) ==
    /\ lpc[h] \in {"start", "towait", "toresult"}
    /\ blk = 0
    /\ blk' = h
    /\ lpc' = [lpc EXCEPT ![h] = CASE lpc[h] = "start" -> "adding"
                                   [] lpc[h] = "towait" -> "taking"
                                   [] OTHER -> "storing"]
    /\ UNCHANGED <<lterm, lrcv>>
    /\ LockFrame

\* 121-130: board.add(&job), Ok or an error that is returned; the block
\* ends either way
RunnerAdd(h, ok) ==
    /\ lpc[h] = "adding"
    /\ blk' = DropGuard(h)
    /\ lpc' = [lpc EXCEPT ![h] = IF ok THEN "put" ELSE "err"]
    /\ UNCHANGED <<lterm, lrcv>>
    /\ LockFrame

\* 133: the put is done: send_to has written add_job to the Account's
\* board, for which it takes the lock itself, and sent it
RunnerPutSent(h, ok) ==
    /\ lpc[h] = "put"
    /\ blk = 0
    /\ lpc' = [lpc EXCEPT ![h] = IF ok THEN "update" ELSE "err"]
    /\ UNCHANGED <<blk, lterm, lrcv>>
    /\ LockFrame

\* 136-138: the Running update to the sender is done
RunnerUpdateSent(h, ok) ==
    /\ lpc[h] = "update"
    /\ lpc' = [lpc EXCEPT ![h] = IF ok THEN "towait" ELSE "err"]
    /\ UNCHANGED <<blk, lterm, lrcv>>
    /\ LockFrame

\* 142-145: waiter = board.wait_for(&job)?
RunnerTakeWaiter(h) ==
    /\ lpc[h] = "taking"
    /\ blk' = DropGuard(h)
    /\ lpc' = [lpc EXCEPT ![h] = "waiting"]
    /\ UNCHANGED <<lterm, lrcv>>
    /\ LockFrame

\* 149: waiter.result().await returns: the board holds a terminal
\* version of the job
RunnerWaiterResolved(h) ==
    /\ lpc[h] = "waiting"
    /\ h \in lterm
    /\ lpc' = [lpc EXCEPT ![h] = "toresult"]
    /\ UNCHANGED <<blk, lterm, lrcv>>
    /\ LockFrame

\* 165-168: board.add(&job)?
RunnerStore(h, ok) ==
    /\ lpc[h] = "storing"
    /\ blk' = DropGuard(h)
    /\ lpc' = [lpc EXCEPT ![h] = IF ok THEN "final" ELSE "err"]
    /\ UNCHANGED <<lterm, lrcv>>
    /\ LockFrame

\* 173: the update to the sender is done, the handler returns
RunnerFinalSent(h, ok) ==
    /\ lpc[h] = "final"
    /\ lpc' = [lpc EXCEPT ![h] = IF ok THEN "ok" ELSE "err"]
    /\ UNCHANGED <<blk, lterm, lrcv>>
    /\ LockFrame

\* an update of the Account arrives: a terminal version of the job of
\* handler for, or (0) of a job no handler waits for
ReplyArrives(for) ==
    /\ lrcv.pc = "idle"
    /\ lrcv' = [pc |-> "wants", for |-> for]
    /\ UNCHANGED <<blk, lpc, lterm>>
    /\ LockFrame

\* the receiving task is granted the write lock of the board
ReplyLock ==
    /\ lrcv.pc = "wants"
    /\ blk = 0
    /\ blk' = Receiver
    /\ lrcv' = [lrcv EXCEPT !.pc = "holds"]
    /\ UNCHANGED <<lpc, lterm>>
    /\ LockFrame

\* the receiving task adds the job to the board and drops the lock
ReplyApply ==
    /\ lrcv.pc = "holds"
    /\ lterm' = IF lrcv.for \in Handlers THEN lterm \cup {lrcv.for} ELSE lterm
    /\ blk' = 0
    /\ lrcv' = [pc |-> "idle", for |-> 0]
    /\ UNCHANGED lpc
    /\ LockFrame

\* the steps that end a block of handler h
RunnerBlockEnds(h) ==
    \/ \E ok \in BOOLEAN : RunnerAdd(h, ok)
    \/ RunnerTakeWaiter(h)
    \/ \E ok \in BOOLEAN : RunnerStore(h, ok)

LockNext ==
    \/ \E h \in Handlers : RunnerLock(h)
    \/ \E h \in Handlers, ok \in BOOLEAN : RunnerAdd(h, ok)
    \/ \E h \in Handlers, ok \in BOOLEAN : RunnerPutSent(h, ok)
    \/ \E h \in Handlers, ok \in BOOLEAN : RunnerUpdateSent(h, ok)
    \/ \E h \in Handlers : RunnerTakeWaiter(h)
    \/ \E h \in Handlers : RunnerWaiterResolved(h)
    \/ \E h \in Handlers, ok \in BOOLEAN : RunnerStore(h, ok)
    \/ \E h \in Handlers, ok \in BOOLEAN : RunnerFinalSent(h, ok)
    \/ \E for \in Handlers \cup {0} : ReplyArrives(for)
    \/ ReplyLock
    \/ ReplyApply

LockSpecInit == JobIdle /\ BoardIdle /\ LockInit

SpecLock == LockSpecInit /\ [][LockNext]_vars

(***************************************************************************)
(* SpecClient: the Instance is the client of the Portal.  Its supervisor   *)
(* (paddington client::run) calls run_once again and again; the Portal     *)
(* accepts or refuses each connection at the handshake.                    *)
(***************************************************************************)
SuperviseReturnsOnOk(res) == IF res = "Ok" THEN "returned" ELSE "sleep"

\* client::run after run_once returned res: both arms of the match only
\* log, the sleep follows, and the loop has no exit
Supervise(res) == "sleep"

HandshakeIgnoresKey(cc, sc) ==
    IF ~ClientConfigMatches(sc, cc.addr) THEN "BadAddress"
    ELSE IF sc.name # Some(cc.service) THEN "UnknownPeer"
    ELSE "Ok"

\* the handshake of client cc at the server that holds sc for it: the
\* source address must match, the name must be the client's, and the
\* greeting must open under the server's outer key
HandshakeResult(cc, sc) ==
    IF ~ClientConfigMatches(sc, cc.addr) THEN "BadAddress"
    ELSE IF sc.name # Some(cc.service) THEN "UnknownPeer"
    ELSE IF cc.outer_key # sc.outer_key THEN "BadHandshake"
    ELSE "Ok"

ClientInit ==
    /\ up = [l \in Links |-> FALSE]
    /\ registry = [a \in Agents |-> {}]
    /\ RestInit
    /\ spc = "start"
    /\ sres = "none"
    /\ natt = 0
    /\ nsleep = 0
    /\ slept = 0
    /\ ccfg \in ClientConfigs
    /\ scfg \in ServerConfigs
    /\ AuxIdle("")

\* run_once up to make_connection
RunOnce ==
    /\ spc = "start"
    /\ natt < MaxAttempts
    /\ natt' = natt + 1
    /\ IF ccfg.service = "" \/ ccfg.peer = ""
       THEN /\ sres' = "UnknownPeer"
            /\ spc' = Supervise("UnknownPeer")
       ELSE /\ spc' = "connecting"
            /\ UNCHANGED sres
    /\ slept' = 0
    /\ UNCHANGED <<nsleep, ccfg, scfg, auxVars>>
    /\ UNCHANGED <<netVars, handlerVars, submitted, ndisc, cut>>
    /\ UNCHANGED <<jobVars, boardVars>>

\* make_connection: the handshake.  When it succeeds both ends process
\* Connected; when it fails the server closes the connection and
\* make_connection returns the error.
Handshake ==
    /\ spc = "connecting"
    /\ IF HandshakeResult(ccfg, scfg) = "Ok"
       THEN /\ Opened("PI")
            /\ spc' = "connected"
            /\ UNCHANGED sres
       ELSE /\ sres' = HandshakeResult(ccfg, scfg)
            /\ spc' = Supervise(HandshakeResult(ccfg, scfg))
            /\ UNCHANGED <<netVars, handlerVars, submitted, ndisc, cut>>
            /\ UNCHANGED <<jobVars, boardVars>>
    /\ UNCHANGED <<natt, nsleep, slept, ccfg, scfg, auxVars>>

\* make_connection returns when the connection is closed, with Ok or with
\* the error that closed it
SessionEnds ==
    /\ spc = "connected"
    /\ Closed("PI")
    /\ \E res \in {"Ok", "Closed"} :
          /\ sres' = res
          /\ spc' = Supervise(res)
    /\ UNCHANGED <<natt, nsleep, slept, ccfg, scfg, auxVars>>

\* tokio::time::sleep(5 s), then the next turn of the loop
Sleep ==
    /\ spc = "sleep"
    /\ spc' = "start"
    /\ nsleep' = nsleep + 1
    /\ slept' = slept + Backoff
    /\ UNCHANGED <<sres, natt, ccfg, scfg, auxVars>>
    /\ UNCHANGED <<netVars, handlerVars, submitted, ndisc, cut>>
    /\ UNCHANGED <<jobVars, boardVars>>

ClientNext ==
    \/ RunOnce
    \/ Handshake
    \/ SessionEnds
    \/ Sleep
    \/ \E pr \in LinkPairs : CtlRegister(pr[1], pr[2])
    \/ \E pr \in LinkPairs : CtlSyncBoard(pr[1], pr[2])
    \/ \E pr \in LinkPairs : CtlSendQueued(pr[1], pr[2])
    \/ \E pr \in LinkPairs : RecvRegister(pr[1], pr[2])
    \/ \E pr \in LinkPairs : RecvSync(pr[1], pr[2])
    \/ \E pr \in LinkPairs : RecvUpdate(pr[1], pr[2])
    \/ RecvPutInstance
    \/ \E instr \in Instructions : Submit(instr)
    \/ \E x \in PortalIds : RunnerNoAccount(x)
    \/ \E x \in PortalIds : RunnerRemoveUser(x)
    \/ \E x \in PortalIds : HandlerReturn(x)

ClientSpecInit == JobIdle /\ BoardIdle /\ ClientInit

SpecClient == ClientSpecInit /\ [][ClientNext]_vars

BootSpecInit == JobIdle /\ BoardIdle /\ BootInit

SpecBoot == BootSpecInit /\ [][Next]_vars

\* the first state of Spec, which SpecBoot reaches
Established == SysInit


(***************************************************************************)
(* Claims about Job (SpecJob).                                             *)
(***************************************************************************)
JobCompletedOrErroredStep ==
    \/ \E r \in Messages : JobCompleted(r)
    \/ \E m \in Messages : JobErrored(m)

\* C4: completed() and errored() succeed only on a Pending job; on any
\* other job (in particular a Complete or Error one) they return
\* InvalidState and leave the job as it was, so at most one call succeeds.
C4_CompletedErroredOnlyFromPending ==
    [][JobCompletedOrErroredStep =>
         /\ (jret'.ok <=> jv.state = "Pending")
         /\ (~jret'.ok => jret'.err = "InvalidState" /\ jv' = jv)
         /\ (jret'.ok => jv'.state \in Terminal /\ jv'.id = jv.id)
         /\ jsucc' <= 1]_vars

\* a second completed()/errored() was refused on a terminal job
C4_Witness ==
    /\ jret.op \in {"completed", "errored"}
    /\ ~jret.ok
    /\ jv.state \in Terminal
    /\ jsucc = 1

(***************************************************************************)
(* Claims about Board (SpecBoard).                                         *)
(***************************************************************************)
PendingOn(ws, id) == {w \in DOMAIN ws : ws[w].st = "pending" /\ ws[w].id = id}

C3_TerminalIsFinal ==
    [][\A id \in BoardIds :
         (HasJob(tb, id) /\ IsFinished(tb.jobs[id])) =>
            (HasJob(tb', id) /\ tb'.jobs[id] = tb.jobs[id])]_vars

\* a higher version was offered for a terminal job and refused
C3_Witness ==
    /\ bret.op = "add" /\ bret.err = "InvalidState"
    /\ \E id \in BoardIds :
          HasJob(tb, id) /\ IsFinished(tb.jobs[id]) /\ tb.jobs[id].version < MaxVersion

\* C7: a waiter resolves only with a terminal job of its id, and a pending
\* waiter resolves only in a step that stores a terminal version of its id.
C7_WaiterResolvesTerminalOnly ==
    [][\A w \in WaiterIds :
         /\ (wres'[w].st = "resolved" =>
               IsFinished(wres'[w].job) /\ wres'[w].job.id = wres'[w].id)
         /\ (wres[w].st = "pending" /\ wres'[w].st # "pending" =>
               /\ wres'[w].st = "resolved"
               /\ ~(HasJob(tb, wres[w].id) /\ IsFinished(tb.jobs[wres[w].id]))
               /\ HasJob(tb', wres[w].id)
               /\ tb'.jobs[wres[w].id] = wres'[w].job)]_vars

\* a waiter taken for an unknown id has seen an interim version stored and
\* was resolved afterwards
C7_Witness ==
    \E w \in WaiterIds :
       /\ wres[w].st = "resolved" /\ wres[w].fresh /\ wres[w].interim
       /\ wres[w].how = "notified"

\* C8: no wake-up is lost: no waiter is pending while the board holds a
\* terminal version of its id, whether that version was stored before or
\* after the waiter was taken.
C8_NoLostWakeup ==
    \A w \in WaiterIds :
       wres[w].st = "pending" =>
          ~(HasJob(tb, wres[w].id) /\ IsFinished(tb.jobs[wres[w].id]))

\* one waiter resolved at once on an already terminal job, another by the
\* add that followed its registration
C8_Witness ==
    \E w1, w2 \in WaiterIds :
       /\ wres[w1].how = "immediate" /\ wres[w1].st = "resolved"
       /\ wres[w2].how = "notified" /\ wres[w2].st = "resolved"


(***************************************************************************)
(* Claims about the agents (Spec).                                         *)
(***************************************************************************)
RECURSIVE SeqJobs(_)
\* the jobs a sequence of messages carries
SeqJobs(ms) ==
    IF ms = << >> THEN {}
    ELSE (IF Head(ms).type \in {"Put", "Update"} THEN {Head(ms).job} ELSE {})
         \cup {Head(ms).jobs[i] : i \in DOMAIN Head(ms).jobs}
         \cup SeqJobs(Tail(ms))

BoardJobsOf(b) == {b.jobs[i] : i \in DOMAIN b.jobs}

\* every job there is: on a board, queued, in flight or held by a handler
SysJobs ==
    UNION {BoardJobsOf(board[pr]) \cup SeqJobs(board[pr].queued) \cup SeqJobs(chan[pr]) :
           pr \in Pairs}
    \cup {j \in {hjob[x] : x \in PortalIds} \cup {hadd[x] : x \in PortalIds}
                \cup {hres[x] : x \in PortalIds} \cup {ajob[y] : y \in AddIds} :
          j.id # 0}

\* the account's terminal version of the job handler x put to it is on
\* the Instance's board for the account
AccountReplied(x) ==
    /\ hadd[x].id # 0
    /\ HasJob(board[<<"I", "A">>], hadd[x].id)
    /\ IsFinished(board[<<"I", "A">>].jobs[hadd[x].id])

\* nothing is in flight or queued, every peer is connected and has been
\* resynchronised, and no handler has a step to take
Quiescent ==
    /\ \A l \in Links : up[l]
    /\ \A pr \in Pairs :
          chan[pr] = << >> /\ cpc[pr] = "idle" /\ board[pr].queued = << >>
    /\ \A x \in PortalIds : hpc[x] \in {"none", "waiting", "replied"}
    /\ \A y \in AddIds : apc[y] \in {"none", "done"}

\* the waiter of an Instance handler never resolves: nothing adds a
\* terminal version of the received job to the account's board, so the
\* handler's continuation (main.rs:150-183) is never run
RunnerNeverResumes == \A x \in PortalIds : hres[x] = NoJob /\ ~ENABLED RunnerResume(x)

\* C1: on every board, a change of the job stored under an id strictly
\* increases its version, and a stored job never disappears.
C1_VersionsIncrease ==
    [][\A pr \in Pairs : \A id \in DOMAIN board[pr].jobs :
          /\ id \in DOMAIN board'[pr].jobs
          /\ \/ board'[pr].jobs[id] = board[pr].jobs[id]
             \/ board'[pr].jobs[id].version > board[pr].jobs[id].version]_vars

\* after a reconnect, a snapshot in flight carries an older version of a
\* job than the board it is going to holds
C1_Witness ==
    /\ ndisc >= 1
    /\ \E pr \in Pairs : \E m \in {chan[pr][i] : i \in DOMAIN chan[pr]} :
          /\ m.type = "Sync"
          /\ \E k \in DOMAIN m.jobs :
                /\ HasJob(board[<<pr[2], pr[1]>>], m.jobs[k].id)
                /\ board[<<pr[2], pr[1]>>].jobs[m.jobs[k].id].version > m.jobs[k].version

C6_ConvergedTerminal ==
    Quiescent =>
       \A pr \in Pairs : \A id \in DOMAIN board[pr].jobs :
          /\ IsFinished(board[pr].jobs[id])
          /\ \A qr \in Pairs :
                HasJob(board[qr], id) => board[qr].jobs[id] = board[pr].jobs[id]

\* C9 as stated: once the account's terminal version of the job put to
\* it is on the Instance's board, the handler's waiter has resolved; the
\* job put, the job added to the board and the job waited on are one job.
C9_HandlerResumes ==
    \A x \in PortalIds :
       (hpc[x] = "waiting" /\ AccountReplied(x)) =>
          /\ hres[x] # NoJob
          /\ RunnerBoardJob(hjob[x], hadd[x]).id = hadd[x].id
          /\ RunnerWaitedJob(hjob[x], hadd[x]).id = hadd[x].id

\* C10 as stated: once the account has completed the job and nothing is
\* left to deliver, every board of the route holds the originating job
\* with one and the same terminal version.
C10_RouteBoardsAgree ==
    \A x \in PortalIds :
       (Quiescent /\ AccountReplied(x)) =>
          \A pr \in Pairs :
             /\ HasJob(board[pr], x)
             /\ IsFinished(board[pr].jobs[x])
             /\ board[pr].jobs[x].version = board[<<"P", "I">>].jobs[x].version


(***************************************************************************)
(* Claims about connections and the Connected sequence (Spec).             *)
(***************************************************************************)
Back(pr) == <<pr[2], pr[1]>>

\* C11: a put to a peer that is not connected is not refused and is
\* appended to that peer's queued list; the list only grows until
\* send_queued, which runs after sync_board of the same connection and
\* sends the whole list once, in its order, leaving it empty.
C11_QueuedReplay ==
    [][\A pr \in Pairs :
         LET l == Link(pr[1], pr[2])
             q == board[pr].queued
             q2 == board'[pr].queued IN
         /\ q2 # q =>
               \/ Len(q2) > Len(q) /\ SubSeq(q2, 1, Len(q)) = q /\ ~up'[l]
               \/ /\ q2 = << >> /\ cpc[pr] = "queued" /\ up[l]
                  /\ chan'[pr] = chan[pr] \o q
         /\ (pr = <<"P", "I">> /\ submitted' = submitted + 1 /\ ~up[l]) =>
               /\ HasJob(board'[pr], submitted')
               /\ q2 = Append(q, PutMsg(board'[pr].jobs[submitted']))
               /\ chan'[pr] = chan[pr]
         /\ (cpc[pr] = "queued" /\ cpc'[pr] = "idle") =>
               q2 = << >> /\ chan'[pr] = chan[pr] \o q]_vars

\* after a reconnect the stream to the Instance holds the snapshot, which
\* has both jobs, followed by the two queued puts in the order they were
\* queued
C11_Witness ==
    LET ch == chan[<<"P", "I">>] IN
    /\ ndisc >= 1
    /\ cpc[<<"P", "I">>] = "idle"
    /\ board[<<"P", "I">>].queued = << >>
    /\ \E i \in DOMAIN ch :
          /\ ch[i].type = "Sync" /\ Len(ch[i].jobs) = 2
          /\ Len(ch) >= i + 2
          /\ ch[i + 1].type = "Put" /\ ch[i + 1].job.id = 1
          /\ ch[i + 2].type = "Put" /\ ch[i + 2].job.id = 2

\* C12: on every Connected the agent does, for that peer, register, then
\* sync_board, then send_queued, each after the one before; the frames of
\* the sequence are sent by these steps only; a sequence that failed
\* performs no later step until the next Connected.
C12_ConnectedSequence ==
    [][\A pr \in Pairs :
         LET l == Link(pr[1], pr[2]) IN
         /\ (~up[l] /\ up'[l]) => cpc'[pr] = "register"
         /\ cpc'[pr] # cpc[pr] =>
              \/ cpc'[pr] = "register" /\ ~up[l] /\ up'[l]
              \/ /\ cpc[pr] = "register" /\ cpc'[pr] = "sync"
                 /\ chan'[pr] = Append(chan[pr], RegisterMsg)
              \/ /\ cpc[pr] = "sync" /\ cpc'[pr] = "queued"
                 /\ chan'[pr] = Append(chan[pr], SyncMsg(Snapshot(board[pr])))
              \/ /\ cpc[pr] = "queued" /\ cpc'[pr] = "idle"
                 /\ chan'[pr] = chan[pr] \o board[pr].queued
                 /\ board'[pr].queued = << >>
              \/ /\ cpc[pr] \in {"register", "sync", "queued"} /\ cpc'[pr] = "failed"
                 /\ up[l] /\ ~up'[l]
         /\ (Len(chan'[pr]) > Len(chan[pr]) /\ Last(chan'[pr]).type = "Register")
               => cpc[pr] = "register"
         /\ (Len(chan'[pr]) > Len(chan[pr]) /\ Last(chan'[pr]).type = "Sync")
               => cpc[pr] = "sync"
         /\ (cpc[pr] = "failed" /\ cpc'[pr] = "failed") =>
               /\ chan'[pr] = << >>
               /\ Len(board'[pr].queued) >= Len(board[pr].queued)]_vars

\* the Account's sequence for the Instance sent its register, which the
\* Instance received, and then failed: the connection was closed
C12_Witness ==
    /\ cpc[<<"A", "I">>] = "failed"
    /\ "A" \in registry["I"]
    /\ ~up["IA"]

\* C13 as stated: while an agent's sequence for a peer has not completed
\* the resync, no Put or Update of that peer is taken from its stream.
C13_SequenceAtomic ==
    [][\A pr \in Pairs :
         (cpc[pr] \in {"register", "sync"} /\ up'[Link(pr[1], pr[2])]
            /\ chan[Back(pr)] # << >> /\ IsData(Head(chan[Back(pr)])))
         => chan'[Back(pr)] # Tail(chan[Back(pr)])]_vars

\* the result a waiter with a deadline resolves with when it elapses
TimeoutResult == [id |-> 0, state |-> "Timeout"]

\* C14: a waiter resolves only with a terminal version of the job it waits
\* for, or with Timeout at its deadline; the close of a connection resolves
\* no waiter and changes no job and no waiter of any board.
C14_NoSpuriousResolve ==
    [][/\ \A x \in DOMAIN hres :
            hres'[x] # hres[x] =>
               \/ /\ IsFinished(hres'[x])
                  /\ hres'[x].id = RunnerWaitedJob(hjob[x], hadd[x]).id
               \/ /\ hres'[x] = TimeoutResult
                  /\ \A pr \in Pairs : board'[pr].jobs = board[pr].jobs
       /\ (\E l \in Links : up[l] /\ ~up'[l]) =>
             /\ hres' = hres
             /\ \A pr \in Pairs :
                   /\ board'[pr].jobs = board[pr].jobs
                   /\ board'[pr].waiters = board[pr].waiters]_vars

\* the Instance handler awaits its waiter, the Account's handler runs the
\* job put to it, and the connection between them has been closed
C14_Witness ==
    \E x \in PortalIds :
       /\ hpc[x] = "waiting" /\ hres[x] = NoJob
       /\ x \in WaitersOf(board[<<"I", "A">>], hjob[x].id)
       /\ apc[AddJobId(x)] = "running"
       /\ ~up["IA"] /\ ndisc >= 1

\* boards b1 and b2 hold the same terminal version of job id
AgreeOn(b1, b2, id) ==
    /\ HasJob(b1, id) /\ HasJob(b2, id)
    /\ b1.jobs[id] = b2.jobs[id]
    /\ IsFinished(b1.jobs[id])

\* C15 as stated: when the connection to the agent that put a job was
\* closed while the job's handler was running, then, once it has been
\* re-established and resynchronised and nothing is left to deliver, the
\* handler has completed, the two boards hold the same terminal job and
\* the waiter of the agent that put it has resolved.
C15_ReconnectDelivers ==
    Quiescent =>
       /\ \A x \in PortalIds \cap cut :
             /\ hpc[x] = "replied"
             /\ AgreeOn(board[<<"P", "I">>], board[<<"I", "P">>], x)
       /\ \A x \in PortalIds :
             (AddJobId(x) \in cut) =>
                /\ apc[AddJobId(x)] = "done"
                /\ AgreeOn(board[<<"I", "A">>], board[<<"A", "I">>], AddJobId(x))
                /\ hres[x] # NoJob

(***************************************************************************)
(* Claims about the client supervisor and the handshake (SpecClient).      *)
(***************************************************************************)
InRunOnce == {"start", "connecting", "connected"}

\* C16: the supervisor never returns; every run_once that ends, with Ok or
\* with any error (UnknownPeer included), is followed by exactly one sleep
\* of Backoff seconds and then by a new run_once with the same
\* configuration and peer.
C16_SupervisorRetries ==
    /\ [](/\ spc \in InRunOnce \cup {"sleep"}
          /\ (spc = "sleep") => (sres # "none" /\ ENABLED Sleep)
          /\ (spc = "start" /\ natt < MaxAttempts) => ENABLED RunOnce
          /\ (spc = "start" /\ natt > 0) => (nsleep = natt /\ slept = Backoff))
    /\ [][/\ ccfg' = ccfg
          /\ (spc \in InRunOnce /\ spc' \notin InRunOnce) => spc' = "sleep"
          /\ (sres' # sres) => spc' = "sleep"
          /\ (spc = "sleep" /\ spc' # "sleep") =>
                (spc' = "start" /\ nsleep' = nsleep + 1 /\ slept' = slept + Backoff)
          /\ (spc # "start" /\ spc' = "start") => spc = "sleep"
          /\ (natt' # natt) => (spc = "start" /\ natt' = natt + 1)]_vars

\* a connection ended with Ok, the supervisor slept once and connected again
C16_Witness ==
    /\ sres = "Ok"
    /\ natt = 2
    /\ nsleep = 1
    /\ spc = "connected"

KeysDiffer == ccfg.outer_key # scfg.outer_key

\* C17: with a wrong outer key the handshake never completes: the
\* connection is never up, no peer is registered, no Connected sequence
\* runs, nothing is sent, the Instance's board for the Portal stays empty
\* and a refused attempt changes no board; the server takes the next
\* attempt, which the supervisor makes after its sleep.
C17_WrongKeyRefused ==
    /\ [](KeysDiffer =>
             /\ spc # "connected"
             /\ ~up["PI"]
             /\ \A a \in Agents : registry[a] = {}
             /\ \A pr \in Pairs : cpc[pr] = "idle" /\ chan[pr] = << >>
             /\ board[<<"I", "P">>] = EmptyBoard
             /\ (spc = "connecting") => ENABLED Handshake
             /\ (spc = "sleep") => ENABLED Sleep
             /\ sres \in {"none", "UnknownPeer", "BadAddress", "BadHandshake"})
    /\ [][(KeysDiffer /\ spc = "connecting" /\ spc' # "connecting") =>
             (spc' = "sleep" /\ netVars' = netVars /\ handlerVars' = handlerVars)]_vars

\* the wrong key was refused at every attempt while a job waits on the
\* Portal's queued list
C17_Witness ==
    /\ KeysDiffer
    /\ sres = "BadHandshake"
    /\ natt = MaxAttempts
    /\ nsleep = MaxAttempts - 1
    /\ spc = "sleep"
    /\ Len(board[<<"P", "I">>].queued) = 1

\* the four octets of an address
AddrOctets(addr) ==
    <<addr \div 16777216, (addr \div 65536) % 256, (addr \div 256) % 256, addr % 256>>

\* addr is the configured address, or its first octets are those of the
\* configured range
AddrAllowed(sc, addr) ==
    /\ IsSome(sc.ip)
    /\ IF sc.ip[1].kind = "IP"
       THEN AddrOctets(addr) = AddrOctets(sc.ip[1].ip)
       ELSE \A i \in 1 .. 4 :
               (8 * i <= sc.ip[1].range[6]) => AddrOctets(addr)[i] = sc.ip[1].range[i]

\* C18: a connection is accepted only from a source address that matches
\* the client's IpOrRange (no configured address matches nothing); from
\* any other address every attempt ends with BadAddress, and no attempt
\* changes the server's configuration.
C18_SourceAddress ==
    /\ []((up["PI"] \/ spc = "connected") => AddrAllowed(scfg, ccfg.addr))
    /\ []((/\ ~AddrAllowed(scfg, ccfg.addr)
           /\ ccfg.service # "" /\ ccfg.peer # ""
           /\ sres # "none") => sres = "BadAddress")
    /\ [](~IsSome(scfg.ip) => (~up["PI"] /\ spc # "connected"))
    /\ [][scfg' = scfg]_vars

\* 10.0.1.5 was refused by 10.0.0.0/24 at every attempt
C18_Witness ==
    /\ scfg.ip = Some(IpOrRangeNew(<<10, 0, 0, 0, Slash, 24>>).value)
    /\ ccfg.addr = Ip4(10, 0, 1, 5)
    /\ sres = "BadAddress"
    /\ natt = MaxAttempts
    /\ nsleep = MaxAttempts - 1
    /\ spc = "sleep"

(***************************************************************************)
(* Claims about routing (SpecRoute).                                       *)
(***************************************************************************)
\* C19: a job that arrives is handed to the agent's runnable only when the
\* agent is the last of the job's destination; otherwise the runtime puts
\* it to the next hop (on its board for that peer, and on the connection
\* or, without a connection, on the queued list) and starts no runnable.
C19_RunnableOnlyAtFinalHop ==
    /\ [](/\ \A x \in DOMAIN hpc :
               (hpc[x] # "none") => (hjob[x].id = x /\ Last(hjob[x].dest) = "I")
          /\ \A y \in DOMAIN apc :
               (apc[y] # "none") => (ajob[y].id = y /\ Last(ajob[y].dest) = "A"))
    /\ [][(/\ chan[<<"P", "I">>] # << >>
           /\ Head(chan[<<"P", "I">>]).type = "Put"
           /\ chan'[<<"P", "I">>] = Tail(chan[<<"P", "I">>])
           /\ Last(Head(chan[<<"P", "I">>]).job.dest) = "A") =>
              LET job == Head(chan[<<"P", "I">>]).job IN
                /\ hpc' = hpc
                /\ hjob' = hjob
                /\ HasJob(board'[<<"I", "P">>], job.id)
                /\ HasJob(board'[<<"I", "A">>], job.id)
                /\ board'[<<"I", "A">>].jobs[job.id] = job
                /\ IF up["IA"]
                   THEN chan'[<<"I", "A">>] = Append(chan[<<"I", "A">>], PutMsg(job))
                   ELSE /\ chan'[<<"I", "A">>] = chan[<<"I", "A">>]
                        /\ board'[<<"I", "A">>].queued =
                              Append(board[<<"I", "A">>].queued, PutMsg(job))]_vars

\* the Account's handler runs a job the Instance forwarded without
\* starting its own runner
C19_Witness ==
    \E x \in PortalIds :
        /\ apc[x] = "running"
        /\ ajob[x].dest = <<"P", "I", "A">>
        /\ hpc[x] = "none"
        /\ HasJob(board[<<"I", "P">>], x)

(***************************************************************************)
(* Claims about the updates of a forwarded job (Spec).                     *)
(***************************************************************************)
\* C20 as stated: for an add_user job the Instance forwarded, the Portal
\* receives the Running update and after it the terminal update, of a
\* higher version, and its board accepts both: once the Account has
\* replied and nothing is left to deliver, the Portal's board holds a
\* terminal version of the job above the version of the Running update.
C20_RunningThenTerminal ==
    \A x \in PortalIds :
       (/\ Quiescent
        /\ AccountReplied(x)
        /\ HasJob(board[<<"P", "I">>], x)
        /\ board[<<"I", "P">>].jobs[x].state = "Running") =>
          /\ IsFinished(board[<<"P", "I">>].jobs[x])
          /\ board[<<"P", "I">>].jobs[x].version > board[<<"I", "P">>].jobs[x].version

(***************************************************************************)
(* Claims about errors of the forwarded job (Spec).                        *)
(***************************************************************************)
\* the Account ended the job the handler of x put to it in Error
AccountFailed(x) ==
    /\ AccountReplied(x)
    /\ board[<<"I", "A">>].jobs[hadd[x].id].state = "Error"

\* C21 as stated: when the job put to the Account ends in Error, the
\* Instance handler does not fail: once nothing is left to deliver its own
\* job is in state Error, Job::result on it is RunError, and that job is
\* on the Portal's board for the Instance.
C21_AccountErrorSurfaced ==
    \A x \in PortalIds :
       (Quiescent /\ AccountFailed(x)) =>
          /\ hpc[x] = "replied"
          /\ hjob[x].state = "Error"
          /\ JobResult(hjob[x]).err = "RunError"
          /\ HasJob(board[<<"P", "I">>], x)
          /\ board[<<"P", "I">>].jobs[x] = hjob[x]

(***************************************************************************)
(* Claims about the Disconnected and Error control messages (SpecCtl).     *)
(***************************************************************************)
\* C22: processing a Disconnected or an Error control message changes no
\* board (jobs, waiters and queued list of every peer stay as they are)
\* and process_control_message returns Ok.
C22_ControlKeepsBoards ==
    /\ [](cret \in {"none", "Ok"})
    /\ [][\A pr \in Pairs :
            (ctl[pr] # << >> /\ ctl'[pr] = Tail(ctl[pr])) =>
               (board' = board /\ cret' = "Ok")]_vars

\* a Disconnected and an Error were processed while the Instance holds a
\* job and an update it could not deliver
C22_Witness ==
    /\ cret = "Ok"
    /\ ndisc = 1
    /\ nerr = 1
    /\ \A pr \in Pairs : ctl[pr] = << >>
    /\ ~up["PI"]
    /\ HasJob(board[<<"I", "P">>], 1)
    /\ board[<<"I", "P">>].queued # << >>

(***************************************************************************)
(* Claims about start-up (SpecStart).                                      *)
(***************************************************************************)
\* C23: the service details and then the message handler are installed
\* before the transport is started, so no connection exists and no
\* inbound message is dispatched before the handler is installed; with an
\* empty service name run returns Misconfigured, installs nothing and
\* starts no transport.
C23_HandlerBeforeTransport ==
    /\ (\E i \in 1 .. Len(installed) : installed[i] = "transport") =>
          (Len(installed) >= 3 /\ SubSeq(installed, 1, 3) = <<"details", "handler", "transport">>)
    /\ (\/ up["PI"]
        \/ \E pr \in LinkPairs : cpc[pr] # "idle" \/ chan[pr] # << >>
        \/ board[<<"I", "P">>] # EmptyBoard
        \/ \E x \in PortalIds : hpc[x] # "none") =>
          (Len(installed) >= 2 /\ SubSeq(installed, 1, 2) = <<"details", "handler">>)
    /\ (rname = "") =>
          (/\ installed = << >>
           /\ rpc \in {"name", "returned"}
           /\ rret = (IF rpc = "name" THEN "none" ELSE "Misconfigured")
           /\ ~up["PI"])
    /\ (rret = "Misconfigured") => (rname = "")

\* the Instance's runner was started for a job that arrived over the
\* connection the started transport made
C23_Witness ==
    /\ installed = <<"details", "handler", "transport">>
    /\ rpc = "wait"
    /\ up["PI"]
    /\ \E x \in PortalIds : hpc[x] # "none"

(***************************************************************************)
(* Claims about invitations (SpecInvite).                                  *)
(***************************************************************************)
\* the entry of sequence entries that has the given name
EntryNamed(entries, name) ==
    entries[CHOOSE i \in 1 .. Len(entries) : entries[i].name = name]

\* C24: when a.add_client(b, ip) returned an invitation and
\* b.add_server(invitation) succeeds, b's new server entry is named a and
\* has the inner and the outer key of a's client entry for b (inner with
\* inner, outer with outer); the successful add_client gave a exactly one
\* more client, the successful add_server gives b exactly one more server,
\* and neither changes anything else.
C24_InviteKeysMatch ==
    [][/\ (confret'.op = "add_client" /\ confret'.ok) =>
             LET a == confret'.by IN
               /\ Len(svc'[a].clients) = Len(svc[a].clients) + 1
               /\ SubSeq(svc'[a].clients, 1, Len(svc[a].clients)) = svc[a].clients
               /\ svc'[a].servers = svc[a].servers
               /\ \A s \in Services \ {a} : svc'[s] = svc[s]
               /\ Last(svc'[a].clients).name = Some(confret'.for)
               /\ confret'.invite.name = a
               /\ confret'.invite.inner_key = Last(svc'[a].clients).inner_key
               /\ confret'.invite.outer_key = Last(svc'[a].clients).outer_key
               /\ confret'.invite.inner_key # confret'.invite.outer_key
       /\ (confret'.op = "add_server" /\ confret'.ok /\ confret'.for = confret'.by) =>
             LET b == confret'.by
                 a == confret'.invite.name IN
               /\ Len(svc'[b].servers) = Len(svc[b].servers) + 1
               /\ SubSeq(svc'[b].servers, 1, Len(svc[b].servers)) = svc[b].servers
               /\ svc'[b].clients = svc[b].clients
               /\ \A s \in Services \ {b} : svc'[s] = svc[s]
               /\ Last(svc'[b].servers).name = a
               /\ Last(svc'[b].servers).inner_key = EntryNamed(svc[a].clients, Some(b)).inner_key
               /\ Last(svc'[b].servers).outer_key = EntryNamed(svc[a].clients, Some(b)).outer_key]_vars

\* primary invited secondary and secondary loaded the invitation, as in
\* test_invitations
C24_Witness ==
    /\ confret.op = "add_server"
    /\ confret.ok
    /\ confret.by = "secondary"
    /\ confret.for = "secondary"
    /\ Len(svc["primary"].clients) = 1
    /\ Len(svc["secondary"].servers) = 1
    /\ svc["primary"].clients[1].name = Some("secondary")
    /\ svc["secondary"].servers[1].name = "primary"

(***************************************************************************)
(* Claims about the grammar (SpecGrammar).                                 *)
(***************************************************************************)
\* some character of t from position a to position b is not whitespace
HasInk(t, a, b) == \E i \in a .. b : i \in 1 .. Len(t) /\ t[i] \notin Whitespace

\* the positions of character c in t
Positions(t, c) == {i \in 1 .. Len(t) : t[i] = c}

\* t is three parts separated by two dots, each with a character that is
\* not whitespace
IsUserText(t) ==
    /\ Cardinality(Positions(t, ".")) = 2
    /\ \E d1, d2 \in Positions(t, ".") :
          /\ d1 < d2
          /\ HasInk(t, 1, d1 - 1)
          /\ HasInk(t, d1 + 1, d2 - 1)
          /\ HasInk(t, d2 + 1, Len(t))

\* t is a user text and two more parts separated by colons, each with a
\* character that is not whitespace
IsMappingText(t) ==
    /\ Cardinality(Positions(t, ":")) = 2
    /\ \E c1, c2 \in Positions(t, ":") :
          /\ c1 < c2
          /\ IsUserText(SubSeq(t, 1, c1 - 1))
          /\ HasInk(t, c1 + 1, c2 - 1)
          /\ HasInk(t, c2 + 1, Len(t))

\* C25: for every instruction i other than Invalid, with any user
\* UserIdentifier::parse returns and any non-empty home directory,
\* Instruction::new(i.to_string()) is i, and so is the instruction
\* deserialised from the JSON i is serialised to.
C25_InstructionRoundTrip ==
    (call.kind = "instruction" /\ Len(result) = 2) => result[2].value = call.instruction


\* C26: Instruction::new returns an instruction for every text, and
\* Invalid unless the first word is one of the five verbs and its arguments
\* parse: a user text after add_user and remove_user, a mapping text after
\* add_local_user and remove_local_user, a user text and a home directory
\* after update_homedir ('update_homedir u.p.q' without a home directory is
\* Invalid); is_valid() holds of every instruction returned that is not
\* Invalid.
C26_NewIsTotal ==
    (call.kind = "text" /\ Len(result) >= 1) =>
        LET i == result[1].value
            words == call.words
            rest == JoinWith(Tail(words), " ") IN
        /\ i.kind \in {"AddUser", "RemoveUser", "AddLocalUser", "RemoveLocalUser",
                       "UpdateHomeDir", "Invalid"}
        /\ i.kind = "AddUser" => (words[1] = <<"add_user">> /\ IsUserText(rest))
        /\ i.kind = "RemoveUser" => (words[1] = <<"remove_user">> /\ IsUserText(rest))
        /\ i.kind = "AddLocalUser" => (words[1] = <<"add_local_user">> /\ IsMappingText(rest))
        /\ i.kind = "RemoveLocalUser" =>
              (words[1] = <<"remove_local_user">> /\ IsMappingText(rest))
        /\ i.kind = "UpdateHomeDir" =>
              /\ words[1] = <<"update_homedir">>
              /\ Len(words) >= 3
              /\ IsUserText(words[2])
              /\ HasInk(words[3], 1, Len(words[3]))
        /\ words = <<<<"update_homedir">>, <<"u", ".", "p", ".", "q">>>> => i = Invalid
        /\ (Len(result) = 2 /\ i.kind # "Invalid") => result[2].value = TRUE

\* update_homedir with a user and a home directory was parsed to an
\* instruction that is valid
C26_Witness ==
    /\ call.kind = "text"
    /\ call.words = <<<<"update_homedir">>, <<"u", ".", "p", ".", "q">>, <<"h">>>>
    /\ Len(result) = 2
    /\ result[1].value = UpdateHomeDir([username |-> <<"u">>, project |-> <<"p">>, portal |-> <<"q">>], <<"h">>)
    /\ result[2].value = TRUE

\* C27: UserIdentifier::parse succeeds exactly when the text is three parts
\* separated by dots, none empty after trimming, and returns a Parse error
\* otherwise (as for 'u..q'); the identifier returned has three non-empty
\* fields, the trimmed parts, and renders as username.project.portal.
C27_ParseIdentifier ==
    (call.kind = "identifier" /\ Len(result) >= 1) =>
        LET r == result[1].value
            fields == call.fields IN
        /\ r.ok <=> (Len(fields) = 3 /\ \A k \in 1 .. 3 : HasInk(fields[k], 1, Len(fields[k])))
        /\ ~r.ok => r.err = "Parse"
        /\ r.ok =>
              /\ r.value.username # << >> /\ r.value.project # << >> /\ r.value.portal # << >>
              /\ \A f \in {r.value.username, r.value.project, r.value.portal} :
                    Head(f) \notin Whitespace /\ f[Len(f)] \notin Whitespace
              /\ \E a, b \in 0 .. 1 :
                    fields[1] = [k \in 1 .. a |-> fields[1][k]] \o r.value.username
                                   \o [k \in 1 .. b |-> fields[1][Len(fields[1]) - b + k]]
        /\ Len(result) = 2 =>
              SplitOn(result[2].value, ".") = <<r.value.username, r.value.project, r.value.portal>>

\* a text with whitespace around its parts was parsed and printed
C27_Witness ==
    /\ call.kind = "identifier"
    /\ call.fields = <<<<" ", "u">>, <<"u", "\t">>, <<"u", " ", "p">>>>
    /\ Len(result) = 2
    /\ result[1].value.ok
    /\ result[2].value = <<"u", ".", "u", ".", "u", " ", "p">>


(***************************************************************************)
(* Claims about Job::parse (SpecParse).                                    *)
(***************************************************************************)
\* t is agent names separated by dots: not empty, no dot at either end
\* and no two dots together
IsDestinationText(t) ==
    /\ t # << >>
    /\ Head(t) # "."
    /\ t[Len(t)] # "."
    /\ \A i \in 1 .. (Len(t) - 1) : ~(t[i] = "." /\ t[i + 1] = ".")

\* C28: Job::parse returns a Parse error and no job whenever the first
\* whitespace-delimited token of the command is not a valid destination or
\* the tokens after it are not a valid instruction, and then run puts no
\* job; every job returned has a valid destination, a valid instruction,
\* version 1, state Pending and no result.
C28_ParseRejects ==
    (call.kind = "command" /\ Len(result) = 1) =>
        LET r == result[1].value
            tokens == call.tokens
            bad == \/ tokens = << >>
                   \/ ~IsDestinationText(tokens[1])
                   \/ ~InstructionIsValid(InstructionNew(JoinWith(Tail(tokens), " "))) IN
        /\ bad => (~r.ok /\ r.err = "Parse" /\ r.job = None)
        /\ (bad /\ result[1].op = "run") => r.put = None
        /\ r.ok =>
              /\ IsSome(r.job)
              /\ DestinationIsValid(r.job[1].dest)
              /\ InstructionIsValid(r.job[1].instr)
              /\ r.job[1].version = 1
              /\ r.job[1].state = "Pending"
              /\ r.job[1].result = None

\* a command with a tab and a space before its instruction was parsed to a job
C28_Witness ==
    /\ call.kind = "command"
    /\ call.text = <<"P", ".", "I", "\t", " ", "add_user", "\t", " ", "u", ".", "p", ".", "q">>
    /\ Len(result) = 1
    /\ result[1].op = "parse"
    /\ result[1].value.ok
    /\ result[1].value.job[1].dest = <<<<"P">>, <<"I">>>>
    /\ result[1].value.job[1].instr.kind = "AddUser"


(***************************************************************************)
(* Claims about the keys (SpecCrypto).                                     *)
(***************************************************************************)
\* C29: for every value x and generated key k, k.decrypt(k.encrypt(x)) is
\* x; decrypting what k.encrypt(x) returned with another key fails, and so
\* does decrypting it with k after its data was altered: no value is
\* returned.
C29_DecryptInvertsEncrypt ==
    (call.kind = "value" /\ Len(result) = 2) =>
        LET sealed == result[1].value.sealed
            r == result[2].value IN
        /\ (r.key = call.key /\ r.sealed = sealed) =>
              (r.out.ok /\ r.out.value = Some(call.x))
        /\ (r.key # call.key /\ r.sealed = sealed) =>
              (~r.out.ok /\ r.out.value = None)
        /\ (r.key = call.key /\ r.sealed.data # sealed.data) =>
              (~r.out.ok /\ r.out.value = None)

\* a value with a quote and a tab was encrypted and decrypted
C29_Witness ==
    /\ call.kind = "value"
    /\ call.x = <<"\"", "\t">>
    /\ Len(result) = 2
    /\ result[2].value.key = call.key
    /\ result[2].value.sealed = result[1].value.sealed
    /\ result[2].value.out.value = Some(<<"\"", "\t">>)

\* C30: the sealed data Key::encrypt returns has version 1; Key::decrypt
\* of sealed data of any other version fails with the unsupported-version
\* error without opening the ciphertext, whatever the key and the data.
C30_VersionChecked ==
    /\ (call.kind = "value" /\ Len(result) >= 1 /\ result[1].value.ok) =>
          result[1].value.sealed.version = 1
    /\ (call.kind = "value" /\ Len(result) = 2 /\ result[2].value.sealed.version # 1) =>
          /\ ~result[2].value.out.ok
          /\ result[2].value.out.err = "UnsupportedVersion"
          /\ ~result[2].value.out.opened
          /\ result[2].value.out.value = None

\* what was encrypted was given version 2 and refused by the key that
\* sealed it
C30_Witness ==
    /\ call.kind = "value"
    /\ Len(result) = 2
    /\ result[2].value.key = call.key
    /\ result[2].value.sealed.data = result[1].value.sealed.data
    /\ result[2].value.sealed.version = 2
    /\ result[2].value.out.err = "UnsupportedVersion"

\* C34: a project never has more than ReportLimit reports cached; when
\* set_report returns Ok, get_report of its project and date gives its
\* report; what get_report gives for a project and a date changes only in
\* a step of a set_report on that project; a turn of the eviction loop
\* removes nothing but the oldest date cached for the project
C34_Stored(t) ==
    GetReport(cache, ctask[t].project, ctask[t].date) = Some(ctask[t].report)

C34_ThirtyPerProject ==
    /\ [](\A p \in DOMAIN cache.reports :
            Cardinality(DOMAIN cache.reports[p]) <= ReportLimit)
    /\ [][\A t \in Tasks :
            ctask[t].ret # "Ok" /\ ctask'[t].ret = "Ok" /\ ctask'[t].op = "set_report"
              => GetReport(cache', ctask[t].project, ctask[t].date) = Some(ctask[t].report)]_vars
    /\ [][\A p \in Projects, d \in FirstDate .. LastDate :
            GetReport(cache', p, d) # GetReport(cache, p, d)
              => \E t \in Tasks : /\ lockh = t
                                  /\ ctask[t].project = p
                                  /\ ctask[t].pc \in {"loop", "insert"}]_vars
    /\ [][\A t \in Tasks :
            ctask'[t].iters # ctask[t].iters
              => \A d \in DOMAIN cache.reports[ctask[t].project] :
                    d \notin DOMAIN cache'.reports[ctask[t].project]
                      => \A e \in DOMAIN cache.reports[ctask[t].project] : d <= e]_vars

\* a call has evicted p's oldest report, stored its own and returned with
\* p at the limit
C34_Witness ==
    \E t \in Tasks :
        /\ ctask[t].ret = "Ok"
        /\ ctask[t].iters = 1
        /\ ctask[t].project = "p"
        /\ C34_Stored(t)
        /\ Cardinality(DOMAIN cache.reports["p"]) = ReportLimit
        /\ FirstDate + 1 \notin DOMAIN cache.reports["p"]

\* C35: every turn of the eviction loop removes one cached report (so the
\* loop ends): in the loop the project holds as many reports as it held
\* when the lock was granted less the turns made
C35_EveryTurnEvicts ==
    \A t \in Tasks :
        ctask[t].pc = "loop"
          => Cardinality(DOMAIN cache.reports[ctask[t].project])
               = Cardinality(DOMAIN ctask[t].before.reports[ctask[t].project]) - ctask[t].iters

C37_Rejected(t) ==
    ctask[t].date > ctask[t].today \/ ~ctask[t].report.complete

C37_BugBeforeLock ==
    /\ [][\A t \in Tasks :
            ctask[t].pc = "idle" /\ ctask'[t].op = "set_report" /\ C37_Rejected(t)'
              => /\ ctask'[t].ret = "Bug"
                 /\ ctask'[t].pc = "done"
                 /\ cache' = cache
                 /\ lockh' = lockh]_vars
    /\ [](\A t \in Tasks :
            ctask[t].op = "set_report" /\ (ctask[t].pc = "lock" \/ lockh = t)
              => ~C37_Rejected(t))
    /\ [](\A t \in Tasks :
            ctask[t].op = "set_report" /\ ctask[t].ret = "Ok" => ~C37_Rejected(t))

\* one call was refused for its date and one for an incomplete report
C37_Witness ==
    \E t, u \in Tasks :
        /\ ctask[t].ret = "Bug" /\ ctask[t].date > ctask[t].today /\ ctask[t].report.complete
        /\ ctask[u].ret = "Bug" /\ ctask[u].date <= ctask[u].today /\ ~ctask[u].report.complete

\* C38: a call of clear leaves no account and no user cached and leaves
\* the cluster, the nodes and the reports as they were
C38_ClearKeepsReports ==
    [][\A t \in Tasks :
          ctask[t].pc = "idle" /\ ctask'[t].op = "clear"
            => /\ cache'.accounts = EmptyMap
               /\ cache'.users = EmptyMap
               /\ cache'.cluster = cache.cluster
               /\ cache'.nodes = cache.nodes
               /\ cache'.reports = cache.reports]_vars

\* clear was called on a cache holding accounts, a user, a cluster name,
\* nodes and reports
C38_Witness ==
    \E t \in Tasks :
        /\ ctask[t].op = "clear"
        /\ DOMAIN ctask[t].before.accounts = {"a"}
        /\ DOMAIN ctask[t].before.users = {"u"}
        /\ ctask[t].before.cluster = Some("hpc")
        /\ IsSome(ctask[t].before.nodes)
        /\ "p" \in DOMAIN ctask[t].before.reports
        /\ cache = [ctask[t].before EXCEPT !.accounts = EmptyMap, !.users = EmptyMap]

\* C33: no two clients and no two servers of a service have one name;
\* add_client fails exactly for an empty name, a name in use or a text
\* that is no IP or range, add_server fails exactly for a name in use or
\* an invitation whose URL does not parse, and a failed call leaves the
\* service's lists as they were; remove_client and remove_server return
\* Ok, leave no entry of that name, keep every other entry in its order,
\* and a second removal changes nothing
C33_ClientNamed(config, name) ==
    \E i \in 1 .. Len(config.clients) : config.clients[i].name = Some(name)

C33_ServerNamed(config, name) ==
    \E i \in 1 .. Len(config.servers) : config.servers[i].name = name

C40_Called == result' # result /\ result' # << >>

C40_NoEffect == UNCHANGED <<chan, board, hres, submitted, registry, up>>

C32_Listeners == {i \in 1 .. Len(etasks) : etasks[i].kind = "server"}

C32_Clients == {i \in 1 .. Len(etasks) : etasks[i].kind = "client"}

C31_HolderEndsBlock ==
    /\ blk \in Handlers => ENABLED RunnerBlockEnds(blk)
    /\ blk = Receiver => ENABLED ReplyApply

C31_NoLockAcrossAwait ==
    /\ \A h \in Handlers : lpc[h] \in Suspended => blk # h
    /\ C31_HolderEndsBlock
    /\ lrcv.pc = "wants" => ENABLED ReplyLock \/ (blk # 0 /\ C31_HolderEndsBlock)
    /\ \A h \in Handlers : lpc[h] = "put" => blk # h /\ (blk = 0 => ENABLED RunnerPutSent(h, TRUE))

\* while a handler awaits its waiter and another is about to take its
\* own, the receiving task holds the lock to apply the reply the first
\* one waits for
C31_Witness ==
    /\ lpc[1] = "waiting"
    /\ lpc[2] = "towait"
    /\ blk = Receiver
    /\ lrcv.pc = "holds"
    /\ lrcv.for = 1

=============================================================================
